---- MODULE Spec2Model ----
(***************************************************************************)
(* A model of the command pipeline of the Terminus framework: the command  *)
(* registry (services/commandRegistry), and the terminal store with its    *)
(* dispatcher submitCommand (store/terminalStore.ts, createTerminalStore), *)
(* together with the component effects and the input hook that drive them. *)
(***************************************************************************)
EXTENDS Integers, Sequences, FiniteSets

VARIABLES
    commands,        \* CommandRegistry.commands: Map<string, Command>, in insertion order
    history,         \* store.history: HistoryItem[]
    commandHistory,  \* store.commandHistory: string[]
    promises,        \* the promises returned by asynchronous handlers, by promise id
    last,            \* record of the most recent store / registry operation
    nsub,            \* number of submitCommand calls so far
    parseIn,         \* the arguments of the parseCommand call under study
    parseOut,        \* what that call returned
    inputValue,      \* the store's input state: the text of the input line,
    historyIndex,    \*   the position reached in commandHistory (-1: none),
    suggestions,     \*   the autocomplete suggestions for the text,
    suggestionIndex, \*   and the suggestion reached by Tab (-1: none)
    made,            \* the call of an output helper or example handler under study,
                     \*   with the value it returned
    earlier,         \* the first such call of the behaviour, kept for comparison
    presses,         \* the run of equal key presses on the input line under study
    provider         \* the TerminalProvider under study: the registry each of its
                     \*   renders created, its commands prop, its pending effect

parserVars == <<parseIn, parseOut>>

inputVars == <<inputValue, historyIndex, suggestions, suggestionIndex>>

callVars == <<made, earlier, presses, provider>>

vars == <<commands, history, commandHistory, promises, last, nsub, parseIn, parseOut,
          inputValue, historyIndex, suggestions, suggestionIndex, made, earlier, presses,
          provider>>

-----------------------------------------------------------------------------
(* Bounds of the exploration *)

MaxSubmits == 2
MaxPrints == 1
MaxWords == 3          \* words after the command name on a generated input line
MaxOperands == 3       \* operands given to a calculator command

-----------------------------------------------------------------------------
(* JavaScript strings: TLA+ strings, read character by character *)

Char(s, i) == SubSeq(s, i, i)

IsSpace(c) == c \in {" ", "\t"}

RECURSIVE TrimStart(_)
TrimStart(s) ==
    IF Len(s) > 0 /\ IsSpace(Char(s, 1)) THEN TrimStart(SubSeq(s, 2, Len(s))) ELSE s

RECURSIVE TrimEnd(_)
TrimEnd(s) ==
    IF Len(s) > 0 /\ IsSpace(Char(s, Len(s))) THEN TrimEnd(SubSeq(s, 1, Len(s) - 1)) ELSE s

Trim(s) == TrimEnd(TrimStart(s))

\* s.split(/\s+/)[0]: the characters of s before its first whitespace character
RECURSIVE SplitFirst(_)
SplitFirst(s) ==
    IF Len(s) = 0 \/ IsSpace(Char(s, 1)) THEN ""
    ELSE Char(s, 1) \o SplitFirst(SubSeq(s, 2, Len(s)))

\* commandStr.trim().split(/\s+/)[0] || ''
CommandName(commandStr) == SplitFirst(Trim(commandStr))

-----------------------------------------------------------------------------
(* JavaScript values that handlers return or throw *)

Undefined == [t |-> "undefined"]
Null == [t |-> "null"]
Node(s) == [t |-> "node", s |-> s]                    \* a legacy React node payload
Output(kind, s) == [t |-> "output", type |-> kind, s |-> s]  \* a declarative Output object
Result(ok, payload) == [t |-> "result", success |-> ok, payload |-> payload]
ErrorObj(msg) == [t |-> "Error", s |-> msg]           \* new Error(msg)
Str(s) == [t |-> "string", s |-> s]                   \* a primitive string
Promise(pid) == [t |-> "promise", pid |-> pid]
ErrorElement(msg) == [t |-> "element", className |-> "textError", s |-> msg]

\* what a handler does when invoked: it may call context.clearHistory(), and then
\* returns val ("return"), throws val ("throw"), or returns a promise that later
\* fulfils with val ("resolve") or rejects with val ("reject")
Handler(clears, kind, val) == [clears |-> clears, kind |-> kind, val |-> val]

Command(oid, name, aliases, handler) ==
    [oid |-> oid, name |-> name, aliases |-> aliases, handler |-> handler]

-----------------------------------------------------------------------------
(* CommandRegistry *)

MapHas(m, k) == \E i \in 1..Len(m) : m[i].key = k

MapGet(m, k) ==
    IF MapHas(m, k) THEN m[CHOOSE i \in 1..Len(m) : m[i].key = k].val ELSE Undefined

MapSet_KeepFirst(m, k, v) ==
    IF MapHas(m, k) THEN m ELSE Append(m, [key |-> k, val |-> v])

MapSet(m, k, v) ==
    IF MapHas(m, k)
    THEN [i \in 1..Len(m) |-> IF m[i].key = k THEN [key |-> k, val |-> v] ELSE m[i]]
    ELSE Append(m, [key |-> k, val |-> v])

RECURSIVE SetAliases(_, _, _)
SetAliases(m, aliases, command) ==
    IF aliases = <<>> THEN m
    ELSE SetAliases(MapSet(m, Head(aliases), command), Tail(aliases), command)

register(m, command) ==
    SetAliases(MapSet(m, command.name, command), command.aliases, command)

\* String.prototype.toLowerCase, on the keys that are looked up
ToLowerCase(k) == IF k = "A" THEN "a" ELSE IF k = "B" THEN "b" ELSE k

get_IgnoreCase(m, commandName) == MapGet(m, ToLowerCase(commandName))

get(m, commandName) == MapGet(m, commandName)

RECURSIVE UniqueCommands(_, _)
UniqueCommands(m, uniq) ==
    IF m = <<>> THEN uniq
    ELSE UniqueCommands(Tail(m), MapSet(uniq, Head(m).val.name, Head(m).val))

getAll(m) ==
    LET uniq == UniqueCommands(m, <<>>)
    IN  [i \in 1..Len(uniq) |-> uniq[i].val]

clear(m) == <<>>

-----------------------------------------------------------------------------
(* parseCommand(input, commandArgsDef) *)

StartsWith(s, p) == Len(s) >= Len(p) /\ SubSeq(s, 1, Len(p)) = p

EndsWith(s, p) == Len(s) >= Len(p) /\ SubSeq(s, Len(s) - Len(p) + 1, Len(s)) = p

\* s.indexOf(c, from): the 0-based index of the first c at or after from, or -1
RECURSIVE IndexOfFrom(_, _, _)
IndexOfFrom(s, c, from) ==
    IF from >= Len(s) THEN -1
    ELSE IF Char(s, from + 1) = c THEN from
    ELSE IndexOfFrom(s, c, from + 1)

IndexOf(s, c) == IndexOfFrom(s, c, 0)

\* s.slice(from) and s.slice(from, to) for 0 <= from, to
SliceFrom(s, from) == SubSeq(s, from + 1, Len(s))

Slice(s, from, to) == SubSeq(s, from + 1, to)

Quote == "\""

\* parts.push(cur) when the regular expression has matched a non-empty run
Flush(parts, cur) == IF cur = "" THEN parts ELSE Append(parts, cur)

\* s.match(/(?:[^\s"]+|"[^"]*")+/g) || []: scanning from 0-based position i with
\* the match in progress cur. A quote that has a closing quote extends the match
\* up to and including it; a quote that has none matches nothing, so it ends the
\* match in progress and is skipped, like whitespace
RECURSIVE Scan(_, _, _, _)
Scan(s, i, cur, parts) ==
    IF i >= Len(s) THEN Flush(parts, cur)
    ELSE LET c == Char(s, i + 1)
             close == IndexOfFrom(s, Quote, i + 1)
         IN  IF IsSpace(c) THEN Scan(s, i + 1, "", Flush(parts, cur))
             ELSE IF c # Quote THEN Scan(s, i + 1, cur \o c, parts)
             ELSE IF close # -1 THEN Scan(s, close + 1, cur \o Slice(s, i, close + 1), parts)
             ELSE Scan(s, i + 1, "", Flush(parts, cur))

Match(s) == Scan(s, 0, "", <<>>)

cleanQuotes(s) ==
    IF StartsWith(s, Quote) /\ EndsWith(s, Quote) THEN Slice(s, 1, Len(s) - 1) ELSE s

CleanAll(toks) == [k \in 1..Len(toks) |-> cleanQuotes(toks[k])]

\* Number(key) is not NaN: StringToNumber accepts the empty string, Infinity,
\* decimal literals with an optional sign, fraction and exponent, and unsigned
\* hexadecimal, octal and binary integers
DecDigits == {"0", "1", "2", "3", "4", "5", "6", "7", "8", "9"}

AllIn(s, chars) == \A k \in 1..Len(s) : Char(s, k) \in chars

Unsign(s) == IF StartsWith(s, "+") \/ StartsWith(s, "-") THEN SliceFrom(s, 1) ELSE s

IsMantissa(m) ==
    LET dot == IndexOf(m, ".")
        int == IF dot = -1 THEN m ELSE Slice(m, 0, dot)
        frac == IF dot = -1 THEN "" ELSE SliceFrom(m, dot + 1)
    IN  AllIn(int, DecDigits) /\ AllIn(frac, DecDigits) /\ Len(int) + Len(frac) > 0

IsExponent(e) == Len(Unsign(e)) > 0 /\ AllIn(Unsign(e), DecDigits)

IsDecimal(u) ==
    LET low == IndexOf(u, "e")
        up == IndexOf(u, "E")
        at == IF low = -1 THEN up ELSE IF up = -1 \/ low < up THEN low ELSE up
    IN  \/ u = "Infinity"
        \/ at = -1 /\ IsMantissa(u)
        \/ at # -1 /\ IsMantissa(Slice(u, 0, at)) /\ IsExponent(SliceFrom(u, at + 1))

IsRadixInteger(t) ==
    LET prefix == Slice(t, 0, 2)
        body == SliceFrom(t, 2)
    IN  /\ Len(body) > 0
        /\ \/ prefix \in {"0x", "0X"}
              /\ AllIn(body, DecDigits \cup {"a", "b", "c", "d", "e", "f",
                                             "A", "B", "C", "D", "E", "F"})
           \/ prefix \in {"0o", "0O"} /\ AllIn(body, {"0", "1", "2", "3", "4", "5", "6", "7"})
           \/ prefix \in {"0b", "0B"} /\ AllIn(body, {"0", "1"})

\* isNaN(Number(key))
IsNaNNumber(key) ==
    LET t == Trim(key)
    IN  ~ (t = "" \/ IsDecimal(Unsign(t)) \/ IsRadixInteger(t))

\* a CommandArg; alias "" and type "" stand for a property that is not given
ArgDef(name, alias, type) == [name |-> name, alias |-> alias, type |-> type]

\* the lookup map built from commandArgsDef, by name and by alias
RECURSIVE ArgDefs(_, _)
ArgDefs(commandArgsDef, argDefs) ==
    IF commandArgsDef = <<>> THEN argDefs
    ELSE LET argDef == Head(commandArgsDef)
             byName == MapSet(argDefs, argDef.name, argDef)
         IN  ArgDefs(Tail(commandArgsDef),
                     IF argDef.alias # "" THEN MapSet(byName, argDef.alias, argDef)
                     ELSE byName)

\* values held by the parsed arguments object
Arr(items) == [t |-> "array", items |-> items]
True == [t |-> "boolean", b |-> TRUE]

\* the state of one run of the loop: the arguments object, whether a TypeError
\* has escaped, and for each element of rawArgs the loop has dealt with, what
\* it did with it and the arguments object after that iteration
EmptyArgs == [args |-> <<[key |-> "_", val |-> Arr(<<>>)]>>, threw |-> FALSE, did |-> <<>>]

\* args._.push(...items): a TypeError when args._ no longer holds the array
Push(st, items, did) ==
    LET under == MapGet(st.args, "_")
        args == MapSet(st.args, "_", Arr(under.items \o items))
    IN  IF under.t = "array"
        THEN [st EXCEPT !.args = args,
                        !.did = st.did \o [k \in 1..Len(did) |-> [what |-> did[k], args |-> args]]]
        ELSE [st EXCEPT !.threw = TRUE]

\* args[key] = value
Assign(st, key, value, did) ==
    LET args == MapSet(st.args, key, value)
    IN  [st EXCEPT !.args = args,
                   !.did = st.did \o [k \in 1..Len(did) |-> [what |-> did[k], args |-> args]]]

\* current === '--'
IsTerminator(current) == current = "--"

ConsumesValue_Any(keyDef) == keyDef # Undefined

\* keyDef && keyDef.type !== 'boolean'
ConsumesValue(keyDef) == keyDef # Undefined /\ keyDef.type # "boolean"

\* the flag key without "=": it takes the next element as its value, or is true
Flag(rawArgs, i, argDefs, st, key) ==
    LET keyDef == MapGet(argDefs, key)
        hasNext == i + 1 < Len(rawArgs)
    IN  IF ConsumesValue(keyDef) /\ hasNext /\ ~ StartsWith(rawArgs[i + 2], "-")
        THEN [st |-> Assign(st, key, Str(cleanQuotes(rawArgs[i + 2])), <<"valued", "value">>),
              i |-> i + 2]
        ELSE [st |-> Assign(st, key, True, <<"flag">>), i |-> i + 1]

ValueOf_AfterLast(flagPart, eqIndex) ==
    LET lastEq == CHOOSE k \in eqIndex..(Len(flagPart) - 1) :
                      /\ Char(flagPart, k + 1) = "="
                      /\ IndexOfFrom(flagPart, "=", k + 1) = -1
    IN  SliceFrom(flagPart, lastEq + 1)

\* flagPart.slice(eqIndex + 1)
ValueOf(flagPart, eqIndex) == SliceFrom(flagPart, eqIndex + 1)

\* one iteration of the while loop on rawArgs[i] (0-based i): the state after
\* it and the next i; i = Len(rawArgs) after the break
Step(rawArgs, i, argDefs, st) ==
    LET current == rawArgs[i + 1]
        flagPart == SliceFrom(current, 2)
        eqIndex == IndexOf(flagPart, "=")
        key == SliceFrom(current, 1)
        rest == SubSeq(rawArgs, i + 2, Len(rawArgs))
    IN  IF IsTerminator(current)
        THEN [st |-> Push(st, CleanAll(rest),
                          <<"terminator">> \o [k \in 1..Len(rest) |-> "rest"]),
              i |-> Len(rawArgs)]
        ELSE IF StartsWith(current, "--")
        THEN IF eqIndex # -1
             THEN [st |-> Assign(st, Slice(flagPart, 0, eqIndex),
                                 Str(cleanQuotes(ValueOf(flagPart, eqIndex))), <<"assign">>),
                   i |-> i + 1]
             ELSE Flag(rawArgs, i, argDefs, st, flagPart)
        ELSE IF StartsWith(current, "-")
        THEN IF ~ IsNaNNumber(key)
             THEN [st |-> Push(st, <<cleanQuotes(current)>>, <<"number">>), i |-> i + 1]
             ELSE Flag(rawArgs, i, argDefs, st, key)
        ELSE [st |-> Push(st, <<cleanQuotes(current)>>, <<"positional">>), i |-> i + 1]

RECURSIVE Loop(_, _, _, _)
Loop(rawArgs, i, argDefs, st) ==
    IF st.threw \/ i >= Len(rawArgs) THEN st
    ELSE LET next == Step(rawArgs, i, argDefs, st)
         IN  Loop(rawArgs, next.i, argDefs, next.st)

ResolveAlias_Skip(args, argDef) == args

\* if (argDef.alias && args[argDef.alias] !== undefined) args[argDef.name] = args[argDef.alias]
ResolveAlias(args, argDef) ==
    IF argDef.alias # "" /\ MapGet(args, argDef.alias) # Undefined
    THEN MapSet(args, argDef.name, MapGet(args, argDef.alias))
    ELSE args

RECURSIVE ResolveAliases(_, _)
ResolveAliases(args, commandArgsDef) ==
    IF commandArgsDef = <<>> THEN args
    ELSE ResolveAliases(ResolveAlias(args, Head(commandArgsDef)), Tail(commandArgsDef))

\* the returned object; when a TypeError escaped, threw is set and args is what
\* the object held at that point
parseCommand(input, commandArgsDef) ==
    LET parts == Match(Trim(input))
        rawArgs == Tail(parts)
        st == Loop(rawArgs, 0, ArgDefs(commandArgsDef, <<>>), EmptyArgs)
    IN  IF Len(parts) = 0
        THEN [t |-> "parsed", rawArgs |-> <<>>, threw |-> FALSE, did |-> <<>>,
              args |-> EmptyArgs.args]
        ELSE [t |-> "parsed", rawArgs |-> rawArgs, threw |-> st.threw, did |-> st.did,
              args |-> IF st.threw THEN st.args
                       ELSE ResolveAliases(st.args, commandArgsDef)]

-----------------------------------------------------------------------------
(* getSuggestions(currentInput), reading the command registry *)

\* s.split(/\s+/): the pieces of s between its runs of whitespace, from 0-based
\* position i with the piece in progress cur; a run at either end of s leaves
\* an empty piece there
RECURSIVE SplitFrom(_, _, _, _)
SplitFrom(s, i, cur, parts) ==
    IF i >= Len(s) THEN Append(parts, cur)
    ELSE IF ~ IsSpace(Char(s, i + 1)) THEN SplitFrom(s, i + 1, cur \o Char(s, i + 1), parts)
    ELSE IF i > 0 /\ IsSpace(Char(s, i)) THEN SplitFrom(s, i + 1, cur, parts)
    ELSE SplitFrom(s, i + 1, "", Append(parts, cur))

Split(s) == SplitFrom(s, 0, "", <<>>)

\* the characters of command names, flags and input lines by ascending UTF-16
\* code unit, and the rank of a character among them
CodeUnits == "+-/0123456789ABCDEFGHIJKLMNOPQRSTUVWXYZ_abcdefghijklmnopqrstuvwxyz"

CodeUnit(c) == CHOOSE k \in 1..Len(CodeUnits) : Char(CodeUnits, k) = c

\* a comes before b in the order of Array.prototype.sort() without comparator
RECURSIVE Precedes(_, _)
Precedes(a, b) ==
    IF b = "" THEN FALSE
    ELSE IF a = "" THEN TRUE
    ELSE IF Char(a, 1) # Char(b, 1) THEN CodeUnit(Char(a, 1)) < CodeUnit(Char(b, 1))
    ELSE Precedes(SubSeq(a, 2, Len(a)), SubSeq(b, 2, Len(b)))

\* sorted with x put in: after every element that does not come after it
RECURSIVE Insert(_, _)
Insert(sorted, x) ==
    IF sorted = <<>> THEN <<x>>
    ELSE IF Precedes(x, Head(sorted)) THEN <<x>> \o sorted
    ELSE <<Head(sorted)>> \o Insert(Tail(sorted), x)

RECURSIVE InsertAll(_, _)
InsertAll(sorted, seq) ==
    IF seq = <<>> THEN sorted ELSE InsertAll(Insert(sorted, Head(seq)), Tail(seq))

Sort_Unsorted(seq) == seq

\* seq.sort()
Sort(seq) == InsertAll(<<>>, seq)

\* allCommands.filter(cmd => cmd.name.startsWith(commandPart)).map(cmd => cmd.name)
RECURSIVE NamesStartingWith(_, _)
NamesStartingWith(allCommands, commandPart) ==
    IF allCommands = <<>> THEN <<>>
    ELSE (IF StartsWith(Head(allCommands).name, commandPart)
          THEN <<Head(allCommands).name>> ELSE <<>>)
         \o NamesStartingWith(Tail(allCommands), commandPart)

\* command.args is defined
HasArgs(command) == "args" \in DOMAIN command

ShortForm_AnyArg(arg, lastPart) ==
    IF StartsWith("-" \o arg.alias, lastPart) THEN <<"-" \o arg.alias>> ELSE <<>>

\* if (arg.alias && `-${arg.alias}`.startsWith(lastPart)) argSuggestions.push(`-${arg.alias}`)
ShortForm(arg, lastPart) ==
    IF arg.alias # "" /\ StartsWith("-" \o arg.alias, lastPart)
    THEN <<"-" \o arg.alias>> ELSE <<>>

\* the callback of flatMap: the forms of one arg that start with lastPart
ArgSuggestions(arg, lastPart) ==
    (IF StartsWith("--" \o arg.name, lastPart) THEN <<"--" \o arg.name>> ELSE <<>>)
    \o ShortForm(arg, lastPart)

RECURSIVE FlatMap(_, _)
FlatMap(args, lastPart) ==
    IF args = <<>> THEN <<>>
    ELSE ArgSuggestions(Head(args), lastPart) \o FlatMap(Tail(args), lastPart)

IsTypingCommand_FirstWord(parts, value) == Len(parts) >= 1

\* parts.length === 1 && !value.endsWith(' ')
IsTypingCommand(parts, value) == Len(parts) = 1 /\ ~ EndsWith(value, " ")

getSuggestions(currentInput, registry) ==
    LET value == TrimStart(currentInput)
        parts == Split(value)
        command == get(registry, parts[1])
        lastPart == parts[Len(parts)]
    IN  IF value = "" \/ (Len(parts) = 1 /\ parts[1] = "") THEN <<>>
        ELSE IF IsTypingCommand(parts, value)
        THEN Sort(NamesStartingWith(getAll(registry), parts[1]))
        ELSE IF command = Undefined \/ ~ HasArgs(command) THEN <<>>
        ELSE IF StartsWith(lastPart, "-") THEN Sort(FlatMap(command.args, lastPart))
        ELSE <<>>

-----------------------------------------------------------------------------
(* Output values: the kinds, the discriminator and the helper functions     *)

\* enum OutputType
OutputType ==
    [TEXT |-> "text", SUCCESS |-> "success", ERROR |-> "error", WARNING |-> "warning",
     CODE |-> "code", LIST |-> "list", TABLE |-> "table", JSON |-> "json",
     MARKDOWN |-> "markdown", CUSTOM |-> "custom", MULTI_LINE |-> "multi_line"]

\* further JavaScript values: numbers, false, functions, and plain objects as
\* their own properties in insertion order
Num(n) == [t |-> "number", n |-> n]
False == [t |-> "boolean", b |-> FALSE]
Bool(b) == IF b THEN True ELSE False
Function == [t |-> "function"]
Prop(key, val) == [key |-> key, val |-> val]
Obj(props) == [t |-> "object", props |-> props]

\* the conversion of a value to a boolean
Falsy(value) == value \in {Undefined, Null, False, Num(0), Str("")}

\* typeof value
TypeOf(value) ==
    CASE value.t \in {"undefined", "string", "number", "boolean", "function"} -> value.t
      [] OTHER -> "object"

\* the properties of a React element
ElementKeys == {"$$typeof", "type", "key", "ref", "props"}

\* key in value, for a value that is an object
In(key, value) ==
    CASE value.t = "object" -> MapHas(value.props, key)
      [] value.t \in {"node", "element"} -> key \in ElementKeys
      [] value.t = "Error" -> key \in {"message", "stack"}
      [] value.t = "promise" -> key \in {"then", "catch", "finally"}
      [] value.t = "array" -> key = "length"
      [] value.t = "output" -> key \in {"type", "content"}
      [] OTHER -> FALSE

\* return output && typeof output === 'object' && 'type' in output && 'content' in output
isOutputObject(output) ==
    IF Falsy(output) THEN output
    ELSE IF TypeOf(output) # "object" THEN False
    ELSE IF ~ In("type", output) THEN False
    ELSE Bool(In("content", output))

\* { ...target, ...source }: the own properties of source set on target in their
\* order; undefined and null have none
RECURSIVE SetAll(_, _)
SetAll(props, more) ==
    IF more = <<>> THEN props
    ELSE SetAll(MapSet(props, more[1].key, more[1].val), Tail(more))

Spread_KeepTarget(target, source) ==
    IF source.t = "object" THEN SetAll(source.props, target) ELSE target

Spread(target, source) ==
    IF source.t = "object" THEN SetAll(target, source.props) ELSE target

\* the object literal { type, content, config } of every helper
OutputObject(type, content, config) ==
    Obj(<<Prop("type", Str(type)), Prop("content", content), Prop("config", config)>>)

printLine(content, config) == OutputObject(OutputType.TEXT, content, config)

printMultiLine(lines, config) ==
    OutputObject(OutputType.MULTI_LINE, Obj(<<Prop("lines", lines)>>), config)

printSuccess(content, config) ==
    OutputObject(OutputType.SUCCESS, content,
                 Obj(Spread(<<Prop("styleType", Str("textPrimary"))>>, config)))

printError(content, config) ==
    OutputObject(OutputType.ERROR, content,
                 Obj(Spread(<<Prop("styleType", Str("textError"))>>, config)))

printWarning(content, config) ==
    OutputObject(OutputType.WARNING, content,
                 Obj(Spread(<<Prop("styleType", Str("textError"))>>, config)))

printCode(content, config) == OutputObject(OutputType.CODE, content, config)

printList(items, config) == OutputObject(OutputType.LIST, items, config)

printTable(data, config) == OutputObject(OutputType.TABLE, data, config)

printJson(data, config) == OutputObject(OutputType.JSON, data, config)

printMarkdown(content, config) == OutputObject(OutputType.MARKDOWN, content, config)

printCustom(content, config) ==
    OutputObject(OutputType.CUSTOM, Obj(<<Prop("content", content)>>), config)

-----------------------------------------------------------------------------
(* The example calculator: the handlers of its add and div commands         *)

\* JavaScript numbers: NaN, the infinities, and the finite numbers as fractions
\* p / q in lowest terms with q > 0. A fraction stands for the double nearest to
\* it; the two zeros are not told apart.
NaN == [t |-> "NaN"]
Infinity(neg) == [t |-> "Infinity", neg |-> neg]

Abs(n) == IF n < 0 THEN -n ELSE n

RECURSIVE GCD(_, _)
GCD(a, b) == IF b = 0 THEN a ELSE GCD(b, a % b)

Finite(p, q) ==
    LET d == GCD(Abs(p), q)
    IN  [t |-> "finite", p |-> p \div d, q |-> q \div d]

IsZero(number) == number.t = "finite" /\ number.p = 0

Negative(number) ==
    \/ number.t = "finite" /\ number.p < 0
    \/ number.t = "Infinity" /\ number.neg

\* acc + num
Plus_Left(acc, num) == acc

Plus(acc, num) ==
    CASE acc.t = "NaN" \/ num.t = "NaN" -> NaN
      [] acc.t = "Infinity" /\ num.t = "Infinity" ->
             IF acc.neg = num.neg THEN acc ELSE NaN
      [] acc.t = "Infinity" -> acc
      [] num.t = "Infinity" -> num
      [] OTHER -> Finite(acc.p * num.q + num.p * acc.q, acc.q * num.q)

\* acc / num
Over(acc, num) ==
    CASE acc.t = "NaN" \/ num.t = "NaN" -> NaN
      [] acc.t = "Infinity" /\ num.t = "Infinity" -> NaN
      [] acc.t = "Infinity" -> Infinity(acc.neg # Negative(num))
      [] num.t = "Infinity" -> Finite(0, 1)
      [] IsZero(num) -> IF IsZero(acc) THEN NaN ELSE Infinity(Negative(acc))
      [] OTHER -> Finite((IF num.p < 0 THEN -1 ELSE 1) * acc.p * num.q,
                         acc.q * Abs(num.p))

DigitValue(c) == CHOOSE d \in 0..9 : Char("0123456789", d + 1) = c

\* the value of a run of decimal digits
RECURSIVE Decimal(_)
Decimal(digits) ==
    IF digits = "" THEN 0
    ELSE 10 * Decimal(SubSeq(digits, 1, Len(digits) - 1))
         + DigitValue(Char(digits, Len(digits)))

RECURSIVE Pow10(_)
Pow10(e) == IF e = 0 THEN 1 ELSE 10 * Pow10(e - 1)

\* the longest run of decimal digits of s that starts at index from
RECURSIVE DigitsFrom(_, _)
DigitsFrom(s, from) ==
    IF from < Len(s) /\ Char(s, from + 1) \in DecDigits
    THEN Char(s, from + 1) \o DigitsFrom(s, from + 1)
    ELSE ""

\* parseFloat(string): the longest prefix of the trimmed string that is a decimal
\* literal, or NaN when there is none
parseFloat(string) ==
    LET t == TrimStart(string)
        neg == StartsWith(t, "-")
        u == Unsign(t)
        int == DigitsFrom(u, 0)
        dotted == Len(u) > Len(int) /\ Char(u, Len(int) + 1) = "."
        frac == IF dotted THEN DigitsFrom(u, Len(int) + 1) ELSE ""
        mantissa == Len(int) + (IF dotted THEN 1 + Len(frac) ELSE 0)
        marked == Len(u) > mantissa /\ Char(u, mantissa + 1) \in {"e", "E"}
        exponent == IF marked THEN SliceFrom(u, mantissa + 1) ELSE ""
        digits == DigitsFrom(Unsign(exponent), 0)
        e == Decimal(digits)
        m == (IF neg THEN -1 ELSE 1) * Decimal(int \o frac)
    IN  IF StartsWith(u, "Infinity") THEN Infinity(neg)
        ELSE IF int = "" /\ frac = "" THEN NaN
        ELSE IF StartsWith(exponent, "-")
        THEN Finite(m, Pow10(Len(frac)) * Pow10(e))
        ELSE Finite(m * Pow10(e), Pow10(Len(frac)))

isNaN(number) == number.t = "NaN"

\* validateAndParseNumbers(args): the numbers, or the Error it throws at the
\* first element that parseFloat does not read
RECURSIVE ParseNumbers(_, _)
ParseNumbers(args, numbers) ==
    IF args = <<>> THEN [threw |-> FALSE, message |-> "", numbers |-> numbers]
    ELSE IF isNaN(parseFloat(Head(args)))
    THEN [threw |-> TRUE,
          message |-> "All operands must be valid numbers (e.g., 5, 3.14, -2.5). Invalid input: '"
                          \o Head(args) \o "'",
          numbers |-> numbers]
    ELSE ParseNumbers(Tail(args), Append(numbers, parseFloat(Head(args))))

validateAndParseNumbers(args) == ParseNumbers(args, <<>>)

\* the integers nearest to n / q for q > 0: two of them when n / q lies halfway,
\* where the double at hand decides
Nearest(n, q) ==
    LET floor == n \div q
        rest == n - floor * q
    IN  IF 2 * rest < q THEN {floor}
        ELSE IF 2 * rest > q THEN {floor + 1}
        ELSE {floor, floor + 1}

\* Number(result.toFixed(2)), for |result| < 1e21
formatResult(result) ==
    IF result.t = "finite"
    THEN {Finite(h, 100) : h \in Nearest(100 * result.p, result.q)}
    ELSE {result}

RECURSIVE IntegerToString(_)
IntegerToString(n) ==
    IF n < 10 THEN Char("0123456789", n + 1)
    ELSE IntegerToString(n \div 10) \o Char("0123456789", (n % 10) + 1)

\* `${number}` for a number of at most two decimal places
NumberToString(number) ==
    CASE number.t = "NaN" -> "NaN"
      [] number.t = "Infinity" -> IF number.neg THEN "-Infinity" ELSE "Infinity"
      [] OTHER ->
          LET hundredths == Abs(number.p) * (100 \div number.q)
              cents == hundredths % 100
          IN  (IF number.p < 0 THEN "-" ELSE "")
              \o IntegerToString(hundredths \div 100)
              \o (IF cents = 0 THEN ""
                  ELSE IF cents % 10 = 0 THEN "." \o IntegerToString(cents \div 10)
                  ELSE IF cents < 10 THEN ".0" \o IntegerToString(cents)
                  ELSE "." \o IntegerToString(cents))

\* numbers.reduce((acc, num) => acc + num, 0)
RECURSIVE Sum(_, _)
Sum(numbers, acc) ==
    IF numbers = <<>> THEN acc ELSE Sum(Tail(numbers), Plus(acc, Head(numbers)))

\* numbers.reduce((acc, num, index) => index === 0 ? acc : acc / num, numbers[0])
RECURSIVE Quotient(_, _)
Quotient(numbers, acc) ==
    IF numbers = <<>> THEN acc ELSE Quotient(Tail(numbers), Over(acc, Head(numbers)))

\* the CommandResult objects of a handler
Success(output) == Obj(<<Prop("success", True), Prop("output", output)>>)
Failure(error) == Obj(<<Prop("success", False), Prop("error", error)>>)

\* what a call of a handler comes to: the value it returns and the helpers it
\* has run on the operands
Outcome(returned, did) == [returned |-> returned, did |-> did]

TooFewOperands_One(operands) == Len(operands) < 1

TooFewOperands(operands) == Len(operands) < 2

\* addCommand.handler(args, context), with the output helpers of the context
addHandler(args) ==
    LET operands == MapGet(args, "_").items
        parsed == validateAndParseNumbers(operands)
        sum == Sum(parsed.numbers, Finite(0, 1))
    IN  IF TooFewOperands(operands)
        THEN {Outcome(Failure(printError(Str("Error: At least 2 operands required"), Undefined)),
                      <<>>)}
        ELSE IF parsed.threw
        THEN {Outcome(Failure(printError(Str(parsed.message), Undefined)),
                      <<"validateAndParseNumbers">>)}
        ELSE {Outcome(Success(printSuccess(Str("Result: " \o NumberToString(formattedResult)),
                                           Undefined)),
                      <<"validateAndParseNumbers", "reduce", "formatResult">>) :
                  formattedResult \in formatResult(sum)}

\* for (let i = 1; i < numbers.length; i++) if (numbers[i] === 0) ...
HasZeroDivisor_AnyOperand(numbers) == \E i \in 1..Len(numbers) : IsZero(numbers[i])

HasZeroDivisor(numbers) == \E i \in 2..Len(numbers) : IsZero(numbers[i])

\* divideCommand.handler(args, context), with the output helpers of the context
divideHandler(args) ==
    LET operands == MapGet(args, "_").items
        parsed == validateAndParseNumbers(operands)
        numbers == parsed.numbers
        result == Quotient(Tail(numbers), numbers[1])
    IN  IF TooFewOperands(operands)
        THEN {Outcome(Failure(printError(Str("Error: At least 2 operands required"), Undefined)),
                      <<>>)}
        ELSE IF parsed.threw
        THEN {Outcome(Failure(printError(Str(parsed.message), Undefined)),
                      <<"validateAndParseNumbers">>)}
        ELSE IF HasZeroDivisor(numbers)
        THEN {Outcome(Failure(printError(Str("Error: Division by zero is not allowed"), Undefined)),
                      <<"validateAndParseNumbers">>)}
        ELSE {Outcome(Success(printSuccess(Str("Result: " \o NumberToString(formattedResult)),
                                           Undefined)),
                      <<"validateAndParseNumbers", "reduce", "formatResult">>) :
                  formattedResult \in formatResult(result)}

-----------------------------------------------------------------------------
(* The terminal store: createTerminalStore(registry, onThemeChange) *)

SESSION_START == "session_start"
PROGRAMMATIC_PRINT_COMMAND == "programmatic_print"

HasSessionStart_Never(h) == FALSE

HasSessionStart(h) == \E i \in 1..Len(h) : h[i].command = SESSION_START

addHistoryItem_Unshift(h, command, output) ==
    IF command = SESSION_START /\ HasSessionStart(h)
    THEN h
    ELSE <<[id |-> Len(h), command |-> command, output |-> output]>> \o h

addHistoryItem(h, command, output) ==
    IF command = SESSION_START /\ HasSessionStart(h)
    THEN h
    ELSE Append(h, [id |-> Len(h), command |-> command, output |-> output])

clearHistory_DropFirst(h) == IF h = <<>> THEN h ELSE Tail(h)

clearHistory(h) == <<>>

addCommandToHistory_Always(ch, command) == Append(ch, command)

addCommandToHistory(ch, command) ==
    IF Len(ch) = 0 \/ ch[Len(ch)] # command THEN Append(ch, command) ELSE ch

\* `${(error as Error).message}`: the property read throws a TypeError on
\* null and undefined; a value without a message property reads as undefined
ReadsMessage(error) == error \notin {Null, Undefined}

MessageOf(error) == IF error.t = "Error" THEN error.s ELSE "undefined"

ExecutionError(error) == ErrorElement("Error executing command: " \o MessageOf(error))

NotFound(commandName) ==
    ErrorElement("Command not found: '" \o commandName \o "'. Type 'help' for a list of commands.")

IsAsync(handler) == handler.kind \in {"resolve", "reject"}

Pending(ps) == {p \in 1..Len(ps) : ps[p].state = "pending"}

\* command.handler(args, context): the invocation is counted, the handler's own
\* call of context.clearHistory() takes effect, an async handler creates its promise
InvokeHandler_Twice(n, command) == n + 2

InvokeHandler(n, command) == n + 1

HandlerHistory(h, handler) == IF handler.clears THEN clearHistory(h) ELSE h

HandlerPromises(ps, sub, handler) ==
    IF IsAsync(handler) THEN Append(ps, [sub |-> sub, state |-> "pending", kind |-> handler.kind]) ELSE ps

\* the value of the call expression command.handler(args, context), when it returns
HandlerOutput(ps, handler) ==
    IF IsAsync(handler) THEN Promise(Len(ps) + 1) ELSE handler.val

AppendOutput_NullPasses(h, commandStr, output) ==
    IF output # Undefined THEN addHistoryItem(h, commandStr, output) ELSE h

\* if (output !== undefined && output !== null) addHistoryItem(commandStr, output)
AppendOutput(h, commandStr, output) ==
    IF output # Undefined /\ output # Null THEN addHistoryItem(h, commandStr, output) ELSE h

IsBlank_Never(commandName) == FALSE

\* if (!commandName) return
IsBlank(commandName) == commandName = ""

\* The effect of submitCommand(commandStr) on the store, as a record of the
\* new values; escaped tells whether an exception left submitCommand
submitCommand(commandStr, sub) ==
    LET commandName == CommandName(commandStr)
        command == get(commands, commandName)
        base == [history |-> history, promises |-> promises, invoked |-> 0,
                 escaped |-> FALSE, mid |-> history, handler |-> Undefined,
                 found |-> FALSE, name |-> commandName]
    IN  IF IsBlank(commandName) THEN base
        ELSE IF command # Undefined
        THEN LET handler == command.handler
                 n == InvokeHandler(0, command)
                 mid == HandlerHistory(history, handler)
                 ps == HandlerPromises(promises, sub, handler)
                 called == [base EXCEPT !.invoked = n, !.mid = mid, !.promises = ps,
                                        !.handler = handler, !.found = TRUE]
             IN  IF handler.kind = "throw"
                 THEN IF ReadsMessage(handler.val)
                      THEN [called EXCEPT !.history =
                                addHistoryItem(mid, commandStr, ExecutionError(handler.val))]
                      ELSE [called EXCEPT !.history = mid, !.escaped = TRUE]
                 ELSE [called EXCEPT !.history =
                          AppendOutput(mid, commandStr, HandlerOutput(promises, handler))]
        ELSE [base EXCEPT !.history = addHistoryItem(history, commandStr, NotFound(commandName))]

-----------------------------------------------------------------------------
(* The host application: the commands it hands to <Terminal commands=...>,  *)
(* and the lines that are typed or submitted                               *)

AppCommands ==
    << Command(1, "echo",  <<>>,        Handler(FALSE, "return", Node("hi"))),
       Command(2, "clear", <<"cls">>,   Handler(TRUE,  "return", Null)),
       Command(3, "ok",    <<>>,        Handler(FALSE, "return", Result(TRUE, Output("text", "done")))),
       Command(4, "fail",  <<>>,        Handler(FALSE, "return", Result(FALSE, Output("error", "bad")))),
       Command(5, "boom",  <<>>,        Handler(FALSE, "throw",  ErrorObj("kaput"))),
       Command(6, "nul",   <<>>,        Handler(TRUE,  "throw",  Null)),
       Command(7, "str",   <<>>,        Handler(FALSE, "throw",  Str("oops"))),
       Command(8, "undef", <<>>,        Handler(FALSE, "return", Undefined)),
       Command(9, "slow",  <<>>,        Handler(FALSE, "resolve", Result(TRUE, Node("late")))),
       Command(10, "rej",  <<>>,        Handler(FALSE, "reject", ErrorObj("nope"))) >>

Lines ==
    { "", " \t", " frobnicate -x ", SESSION_START,
      "echo hi", "cls", "ok", "fail", "boom", "nul", "str", "undef", "slow", "rej" }

\* the lines typed into the input line
Typed == { "", " \t", " frobnicate -x ", "echo hi", "cls", "nul", "slow" }

\* the command strings components hand to run
Ran == { " \t", " echo hi ", "nul" }

WelcomeMessage == Node("Welcome to Terminus!")

PrintedNode == Node("printed")

\* command objects a host registers over time: names and aliases that collide,
\* and a command re-created with the same content (a distinct object)
RegistryPool ==
    { Command(11, "a", <<>>,         Handler(FALSE, "return", Node("a"))),
      Command(12, "a", <<"c">>,      Handler(FALSE, "return", Node("a"))),
      Command(13, "a", <<"c", "b">>, Handler(FALSE, "return", Node("a"))),
      Command(14, "a", <<"b", "c">>, Handler(FALSE, "return", Node("a"))),
      Command(15, "b", <<>>,         Handler(FALSE, "return", Node("b"))),
      Command(16, "b", <<"c">>,      Handler(FALSE, "return", Node("b"))),
      Command(17, "b", <<"a">>,      Handler(FALSE, "return", Node("b"))),
      Command(18, "a", <<"c">>,      Handler(FALSE, "return", Node("a"))),
      Command(19, "A", <<>>,         Handler(FALSE, "return", Node("A"))) }

\* the keys looked up in the registry
ProbeKeys == {"a", "b", "c", "A", "B", "d", ""}

RECURSIVE RegisterAll(_, _)
RegisterAll(m, cmds) ==
    IF cmds = <<>> THEN m ELSE RegisterAll(register(m, Head(cmds)), Tail(cmds))

\* Terminal's effect: registry.clear(); commands.forEach(cmd => registry.register(cmd))
RegistryEffect(m, cmds) == RegisterAll(clear(m), cmds)

\* the input state the store is created with
InputInit ==
    /\ inputValue = ""
    /\ historyIndex = -1
    /\ suggestions = <<>>
    /\ suggestionIndex = -1

\* no call of an output helper or example handler has been made
NotCalled == [fn |-> "none"]

\* no TerminalProvider has rendered
NotMounted == [renders |-> <<>>]

\* no key has been pressed on the input line
NotPressed == [key |-> "none"]

CallInit ==
    /\ made = NotCalled
    /\ earlier = NotCalled
    /\ presses = NotPressed
    /\ provider = NotMounted

\* set({ inputValue: '', historyIndex: -1, suggestions: [], suggestionIndex: -1 })
resetInputState ==
    /\ inputValue' = ""
    /\ historyIndex' = -1
    /\ suggestions' = <<>>
    /\ suggestionIndex' = -1

\* no parseCommand call is under study
NoCall == [input |-> "", words |-> <<>>, commandArgsDef |-> <<>>]

NotParsed == [t |-> "none"]

NoOp(op) ==
    [op |-> op, line |-> "", pre |-> history, mid |-> history, escaped |-> FALSE,
     handler |-> Undefined, found |-> FALSE, name |-> "", sub |-> 0,
     invoked |-> 0, inflight |-> Cardinality(Pending(promises)),
     preCommandHistory |-> commandHistory, command |-> Undefined,
     preCommands |-> commands]

Init ==
    /\ commands = RegistryEffect(<<>>, AppCommands)
    /\ history = <<>>
    /\ commandHistory = <<>>
    /\ promises = <<>>
    /\ last = NoOp("init")
    /\ nsub = 0
    /\ parseIn = NoCall
    /\ parseOut = NotParsed
    /\ InputInit
    /\ CallInit

\* what one call of store.submitCommand(line) does to the state
Dispatch(op, line) ==
    LET r == submitCommand(line, nsub + 1)
    IN  /\ history' = r.history
        /\ promises' = r.promises
        /\ nsub' = nsub + 1
        /\ last' = [op |-> op, line |-> line, pre |-> history, mid |-> r.mid,
                    escaped |-> r.escaped, handler |-> r.handler, found |-> r.found,
                    name |-> r.name, sub |-> nsub + 1,
                    invoked |-> r.invoked, inflight |-> Cardinality(Pending(promises)),
                    preCommandHistory |-> commandHistory, command |-> Undefined,
                    preCommands |-> commands]

\* a component calls the store's submitCommand with any string
SubmitCommand(line) ==
    /\ nsub < MaxSubmits
    /\ Dispatch("submit", line)
    /\ UNCHANGED <<commands, commandHistory, parseIn, parseOut, inputVars, callVars>>

\* useCommandInput.handleSubmit with `value` in the input line, as the new
\* history and commandHistory: onSubmit and then addCommandToHistory for a
\* non-blank trimmed value. An exception that leaves onSubmit also leaves
\* handleSubmit, before addCommandToHistory and resetInputState.
handleSubmit(value) ==
    LET trimmedValue == Trim(value)
        r == submitCommand(trimmedValue, nsub + 1)
    IN  IF trimmedValue = ""
        THEN [history |-> history, commandHistory |-> commandHistory, escaped |-> FALSE]
        ELSE [history |-> r.history,
              commandHistory |-> IF r.escaped THEN commandHistory
                                 ELSE addCommandToHistory(commandHistory, trimmedValue),
              escaped |-> r.escaped]

HandleSubmit(value) ==
    LET trimmedValue == Trim(value)
    IN  /\ nsub < MaxSubmits
        /\ IF trimmedValue # ""
           THEN /\ Dispatch("handleSubmit", trimmedValue)
                /\ commandHistory' = handleSubmit(value).commandHistory
           ELSE /\ last' = [NoOp("handleSubmit") EXCEPT !.line = value]
                /\ UNCHANGED <<history, promises, nsub, commandHistory>>
        /\ IF handleSubmit(value).escaped THEN UNCHANGED inputVars ELSE resetInputState
        /\ presses' = NotPressed
        /\ UNCHANGED <<commands, parseIn, parseOut, made, earlier, provider>>

\* useTerminal().run(command), as the new history and commandHistory:
\* addCommandToHistory and then submitCommand for a non-blank trimmed command
run(command) ==
    LET trimmedCommand == Trim(command)
    IN  IF trimmedCommand = ""
        THEN [history |-> history, commandHistory |-> commandHistory]
        ELSE [history |-> submitCommand(trimmedCommand, nsub + 1).history,
              commandHistory |-> addCommandToHistory(commandHistory, trimmedCommand)]

Run(command) ==
    LET trimmedCommand == Trim(command)
    IN  /\ nsub < MaxSubmits
        /\ IF trimmedCommand # ""
           THEN /\ Dispatch("run", trimmedCommand)
                /\ commandHistory' = run(command).commandHistory
           ELSE /\ last' = [NoOp("run") EXCEPT !.line = command]
                /\ UNCHANGED <<history, promises, nsub, commandHistory>>
        /\ UNCHANGED <<commands, parseIn, parseOut, inputVars, callVars>>

\* TerminalView's effect: the welcome message is added while the history is empty
WelcomeEffect ==
    /\ WelcomeMessage # Undefined /\ Len(history) = 0
    /\ history' = addHistoryItem(history, SESSION_START, WelcomeMessage)
    /\ last' = NoOp("welcome")
    /\ UNCHANGED <<commands, commandHistory, promises, nsub, parseIn, parseOut, inputVars, callVars>>

\* useTerminal().print(output)
print ==
    /\ Cardinality({i \in 1..Len(history) : history[i].command = PROGRAMMATIC_PRINT_COMMAND}) < MaxPrints
    /\ history' = addHistoryItem(history, PROGRAMMATIC_PRINT_COMMAND, PrintedNode)
    /\ last' = NoOp("print")
    /\ UNCHANGED <<commands, commandHistory, promises, nsub, parseIn, parseOut, inputVars, callVars>>

\* useTerminal().clear()
ClearHistory ==
    /\ history # <<>>
    /\ history' = clearHistory(history)
    /\ last' = NoOp("clear")
    /\ UNCHANGED <<commands, commandHistory, promises, nsub, parseIn, parseOut, inputVars, callVars>>

\* the promise of an asynchronous handler settles; no code of the store has
\* attached a reaction to it, so a rejection stays unhandled
Settle(p) ==
    /\ promises[p].state = "pending"
    /\ promises' = [promises EXCEPT ![p].state =
                       IF promises[p].kind = "reject"
                       THEN "rejected" ELSE "fulfilled"]
    /\ last' = NoOp("settle")
    /\ UNCHANGED <<commands, history, commandHistory, nsub, parseIn, parseOut, inputVars, callVars>>

\* the host registers a command: registry.register(command)
Register(c) ==
    /\ commands' = register(commands, c)
    /\ last' = [NoOp("register") EXCEPT !.command = c]
    /\ UNCHANGED <<history, commandHistory, promises, nsub, parseIn, parseOut, inputVars, callVars>>

\* the host empties the registry: registry.clear()
RegistryClear ==
    /\ commands # <<>>
    /\ commands' = clear(commands)
    /\ last' = NoOp("registryClear")
    /\ UNCHANGED <<history, commandHistory, promises, nsub, parseIn, parseOut, inputVars, callVars>>

Next ==
    \/ \E line \in Lines : SubmitCommand(line)
    \/ \E value \in Typed : HandleSubmit(value)
    \/ \E command \in Ran : Run(command)
    \/ WelcomeEffect
    \/ print
    \/ ClearHistory
    \/ \E p \in 1..Len(promises) : Settle(p)

Spec == Init /\ [][Next]_vars

\* The registry on its own, from new CommandRegistry()
RegInit ==
    /\ commands = <<>>
    /\ history = <<>>
    /\ commandHistory = <<>>
    /\ promises = <<>>
    /\ last = NoOp("init")
    /\ nsub = 0
    /\ parseIn = NoCall
    /\ parseOut = NotParsed
    /\ InputInit
    /\ CallInit

RegNext ==
    \/ \E c \in RegistryPool : Register(c)
    \/ RegistryClear

RegSpec == RegInit /\ [][RegNext]_vars

\* parseCommand on its own: one call on a line and a schema drawn at the start

\* echo's arguments, a schema with a string flag and one with an untyped flag
Schemas ==
    { <<ArgDef("text", "", ""), ArgDef("uppercase", "u", "boolean")>>,
      <<ArgDef("name", "n", "string"), ArgDef("uppercase", "u", "boolean")>>,
      <<ArgDef("name", "n", "")>>,
      <<>> }

Words ==
    { "--", "-1", "-", "-u", "--uppercase", "-n", "--name", "--n", "--_",
      "--name=\"a=b c\"", "x", "\"hello world\"" }

RECURSIVE Join(_)
Join(ws) == IF ws = <<>> THEN "" ELSE " " \o Head(ws) \o Join(Tail(ws))

\* a typed line: the command name and up to MaxWords words, one space between
\* them; words is the sequence the line was put together from
TypedLines ==
    { [input |-> "echo" \o Join(ws), words |-> ws] :
        ws \in UNION { [1..n -> Words] : n \in 0..MaxWords } }

\* lines with other spacing and quoting, and what was typed as their words
OtherLines ==
    { [input |-> "", words |-> <<>>],
      [input |-> " \t ", words |-> <<>>],
      [input |-> "  echo \t \"hello world\"   --uppercase ",
       words |-> <<"\"hello world\"", "--uppercase">>],
      [input |-> "echo pre\"a b\"post", words |-> <<"pre\"a b\"post">>],
      [input |-> "echo \"\" \"a\tb\"", words |-> <<"\"\"", "\"a\tb\"">>],
      [input |-> "add -- -1 -2", words |-> <<"--", "-1", "-2">>],
      [input |-> "add -5 3", words |-> <<"-5", "3">>],
      [input |-> "add -1.5e3 -Infinity -0x1F -5x", words |-> <<"-1.5e3", "-Infinity", "-0x1F", "-5x">>] }

ParseInit ==
    /\ commands = <<>>
    /\ history = <<>>
    /\ commandHistory = <<>>
    /\ promises = <<>>
    /\ last = NoOp("init")
    /\ nsub = 0
    /\ parseIn \in { [input |-> l.input, words |-> l.words, commandArgsDef |-> d] :
                        l \in TypedLines \cup OtherLines, d \in Schemas }
    /\ parseOut = NotParsed
    /\ InputInit
    /\ CallInit

\* const args = parseCommand(input, commandArgsDef)
ParseCommand ==
    /\ parseOut = NotParsed
    /\ parseOut' = parseCommand(parseIn.input, parseIn.commandArgsDef)
    /\ UNCHANGED <<commands, history, commandHistory, promises, last, nsub, parseIn, inputVars, callVars>>

ParseNext == ParseCommand

ParseSpec == ParseInit /\ [][ParseNext]_vars

\* getSuggestions on every change of the input line, next to the dispatcher

\* a command object with declared args
WithArgs(command, args) ==
    [oid |-> command.oid, name |-> command.name, aliases |-> command.aliases,
     handler |-> command.handler, args |-> args]

SuggestCommands ==
    << WithArgs(Command(21, "help", <<"man", "h">>, Handler(FALSE, "return", Node("help"))),
                <<ArgDef("command", "", "")>>),
       Command(22, "history", <<>>, Handler(FALSE, "return", Node("history"))),
       WithArgs(Command(23, "echo", <<"print", "say">>, Handler(FALSE, "return", Node("hi"))),
                <<ArgDef("text", "", ""), ArgDef("uppercase", "u", "boolean")>>),
       Command(24, "clear", <<"cls">>, Handler(TRUE, "return", Null)),
       WithArgs(Command(25, "He", <<>>, Handler(FALSE, "return", Node("He"))), <<>>),
       WithArgs(Command(26, "unit", <<"-u">>, Handler(FALSE, "return", Node("unit"))),
                <<ArgDef("upper", "U", ""), ArgDef("u", "", "")>>),
       Command(27, "slow", <<>>, Handler(FALSE, "resolve", Result(TRUE, Node("late")))) >>

\* commands registered later: help again as a new object without the alias h
SuggestPool ==
    << WithArgs(Command(28, "help", <<"man">>, Handler(FALSE, "return", Node("help"))),
                <<ArgDef("command", "", ""), ArgDef("all", "a", "boolean")>>),
       Command(29, "hello", <<"he">>, Handler(FALSE, "return", Node("hello"))) >>

\* what the input line holds after a keystroke
SuggestInputs ==
    { "", " ", "\t ", "h", "he", "hel", "help", "helpx", "H", "man", "p", "c", "s", "u", "-", "-u",
      " he", "he ", "help ", "help -", "help --c", "help -a", "h -", "man --",
      "echo ", "echo -", "echo --", "echo --u", "echo --t", "echo -u", "echo -x", "echo --uppercase",
      "echo --uppercase=", "echo hi", "echo hi -", "echo -u hi", "echo -u ", "  echo \t--u", "echo\t-",
      "say -", "cls -", "history -", "He -", "unit -", "unit -U", "unit --u", "-u -", "nope -", "nope" }

SuggestLines == { "slow", "echo hi" }

\* the registry as the provider filled it, with the later commands registered
\* as well, and after registry.clear()
SuggestRegistries ==
    { RegistryEffect(<<>>, SuggestCommands),
      RegisterAll(RegistryEffect(<<>>, SuggestCommands), SuggestPool),
      clear(RegistryEffect(<<>>, SuggestCommands)) }

SuggestInit ==
    /\ commands \in SuggestRegistries
    /\ history = <<>>
    /\ commandHistory = <<>>
    /\ promises = <<>>
    /\ last = NoOp("init")
    /\ nsub = 0
    /\ parseIn = NoCall
    /\ parseOut = NotParsed
    /\ InputInit
    /\ CallInit

HandleChange_AndSubmit(newValue) ==
    /\ nsub < MaxSubmits
    /\ inputValue' = newValue
    /\ suggestionIndex' = -1
    /\ suggestions' = getSuggestions(newValue, commands)
    /\ Dispatch("handleChange", newValue)
    /\ presses' = NotPressed
    /\ UNCHANGED <<commands, commandHistory, historyIndex, parseIn, parseOut, made, earlier,
                   provider>>

\* the input line's change handler: the new text is stored, Tab cycling is
\* reset, and the suggestions for the new text are computed and stored
HandleChange(newValue) ==
    /\ inputValue' = newValue
    /\ suggestionIndex' = -1
    /\ suggestions' = IF newValue # "" THEN getSuggestions(newValue, commands) ELSE <<>>
    /\ last' = [NoOp("handleChange") EXCEPT !.line = newValue]
    /\ presses' = NotPressed
    /\ UNCHANGED <<commands, history, commandHistory, promises, nsub, historyIndex,
                   parseIn, parseOut, made, earlier, provider>>

SuggestNext ==
    \/ \E newValue \in SuggestInputs : HandleChange(newValue)
    \/ \E line \in SuggestLines : SubmitCommand(line)
    \/ \E p \in 1..Len(promises) : Settle(p)

SuggestSpec == SuggestInit /\ [][SuggestNext]_vars

-----------------------------------------------------------------------------
(* The input line: handleKeyDown and handleSubmit of useCommandInput        *)

MaxPresses == 3

\* commandHistory[i] || '', with i counted from 0
At(ch, i) == IF i + 1 \in 1..Len(ch) THEN ch[i + 1] ELSE ""

\* parts.join(' ')
RECURSIVE JoinSpace(_)
JoinSpace(parts) ==
    IF parts = <<>> THEN ""
    ELSE IF Len(parts) = 1 THEN parts[1]
    ELSE parts[1] \o " " \o JoinSpace(Tail(parts))

\* value.split(/\s+/).pop() || ''
wordToComplete(value) == Split(value)[Len(Split(value))]

inlineHint_WholeSuggestion(value, suggs, index) ==
    IF index = -1 /\ suggs # <<>> /\ suggs[1] # ""
       /\ StartsWith(suggs[1], wordToComplete(value)) /\ suggs[1] # wordToComplete(value)
    THEN suggs[1]
    ELSE ""

\* the inline hint rendered after the text: what the first suggestion adds to
\* the word being completed, while Tab has not cycled
inlineHint(value, suggs, index) ==
    IF index = -1 /\ suggs # <<>> /\ suggs[1] # ""
       /\ StartsWith(suggs[1], wordToComplete(value)) /\ suggs[1] # wordToComplete(value)
    THEN SubSeq(suggs[1], Len(wordToComplete(value)) + 1, Len(suggs[1]))
    ELSE ""

\* the input state of the store
Snapshot ==
    [inputValue |-> inputValue, historyIndex |-> historyIndex,
     suggestions |-> suggestions, suggestionIndex |-> suggestionIndex]

\* the press continues the run of presses when the step before was a press of
\* the same key with the same effect; typing and submitting end the run
Continues(key, did) ==
    /\ presses.key = key
    /\ presses.did = did

\* handleKeyDown(e) with e.key = key has done did
Press(key, atEnd, did) ==
    /\ presses # NotPressed => presses.keys < MaxPresses
    /\ presses' = [key |-> key, atEnd |-> atEnd, did |-> did,
                   keys |-> IF presses # NotPressed THEN presses.keys + 1 ELSE 1,
                   n |-> IF Continues(key, did) THEN presses.n + 1 ELSE 1,
                   from |-> IF Continues(key, did) THEN presses.from
                            ELSE [inputValue |-> inputValue, historyIndex |-> historyIndex,
                                  suggestionIndex |-> suggestionIndex]]
    /\ last' = [NoOp("handleKeyDown") EXCEPT !.line = key]
    /\ UNCHANGED <<commands, history, commandHistory, promises, nsub,
                   parserVars, made, earlier, provider>>

\* set by setInputValue, setHistoryIndex, setSuggestions, setSuggestionIndex
SetInput(after) ==
    /\ inputValue' = after.inputValue
    /\ historyIndex' = after.historyIndex
    /\ suggestions' = after.suggestions
    /\ suggestionIndex' = after.suggestionIndex

ArrowUp_Unclamped ==
    LET newIndex == historyIndex + 1
        newCommand == At(commandHistory, Len(commandHistory) - 1 - newIndex)
        after == IF Len(commandHistory) > 0
                 THEN [Snapshot EXCEPT !.historyIndex = newIndex, !.inputValue = newCommand,
                                       !.suggestions = <<>>, !.suggestionIndex = -1]
                 ELSE Snapshot
    IN  /\ SetInput(after)
        /\ Press("ArrowUp", TRUE, "up")

\* e.key === 'ArrowUp'
ArrowUp ==
    LET newIndex == IF historyIndex < Len(commandHistory) - 1
                    THEN historyIndex + 1 ELSE Len(commandHistory) - 1
        newCommand == At(commandHistory, Len(commandHistory) - 1 - newIndex)
        after == IF Len(commandHistory) > 0
                 THEN [Snapshot EXCEPT !.historyIndex = newIndex, !.inputValue = newCommand,
                                       !.suggestions = <<>>, !.suggestionIndex = -1]
                 ELSE Snapshot
    IN  /\ SetInput(after)
        /\ Press("ArrowUp", TRUE, "up")

\* e.key === 'ArrowDown'
ArrowDown ==
    LET newIndex == historyIndex - 1
        newCommand == IF newIndex >= 0
                      THEN At(commandHistory, Len(commandHistory) - 1 - newIndex) ELSE ""
        after == IF historyIndex >= 0
                 THEN [Snapshot EXCEPT !.historyIndex = newIndex, !.inputValue = newCommand,
                                       !.suggestions = <<>>, !.suggestionIndex = -1]
                 ELSE Snapshot
    IN  /\ SetInput(after)
        /\ Press("ArrowDown", TRUE, "down")

\* e.key === 'ArrowRight', with the cursor at the end of the text or not: the
\* hint is accepted, or the key is left to the input element
ArrowRight(atEnd) ==
    LET hint == inlineHint(inputValue, suggestions, suggestionIndex)
        accepts == hint # "" /\ atEnd
        after == IF accepts THEN [Snapshot EXCEPT !.inputValue = inputValue \o hint]
                 ELSE Snapshot
    IN  /\ SetInput(after)
        /\ Press("ArrowRight", atEnd, IF accepts THEN "accept" ELSE "none")

\* e.key === 'Tab': the first Tab accepts a hint; otherwise Tab puts the next
\* suggestion in place of the last part of the text
Tab(atEnd) ==
    LET hint == inlineHint(inputValue, suggestions, suggestionIndex)
        accepts == hint # "" /\ atEnd
        newIndex == IF suggestionIndex = -1 THEN 0
                    ELSE (suggestionIndex + 1) % Len(suggestions)
        suggestion == suggestions[newIndex + 1]
        parts == Split(TrimStart(inputValue))
        isCompletingCommand == Len(parts) = 1 /\ ~ EndsWith(inputValue, " ")
        newValue == IF isCompletingCommand THEN suggestion \o " "
                    ELSE JoinSpace([parts EXCEPT ![Len(parts)] = suggestion]) \o " "
        after == IF accepts THEN [Snapshot EXCEPT !.inputValue = inputValue \o hint]
                 ELSE IF Len(suggestions) = 0 THEN Snapshot
                 ELSE [Snapshot EXCEPT !.suggestionIndex = newIndex, !.inputValue = newValue]
    IN  /\ SetInput(after)
        /\ Press("Tab", atEnd,
                 IF accepts THEN "accept" ELSE IF Len(suggestions) = 0 THEN "none" ELSE "cycle")

\* the commands of the terminal whose input line is studied
InputCommands ==
    << WithArgs(Command(31, "help", <<"man">>, Handler(FALSE, "return", Node("help"))),
                <<ArgDef("command", "", "")>>),
       Command(32, "history", <<>>, Handler(FALSE, "return", Node("history"))),
       WithArgs(Command(33, "echo", <<"say">>, Handler(FALSE, "return", Node("hi"))),
                <<ArgDef("text", "", ""), ArgDef("uppercase", "u", "boolean")>>),
       Command(34, "clear", <<"cls">>, Handler(TRUE, "return", Null)),
       Command(35, "nul", <<>>, Handler(TRUE, "throw", Null)) >>

\* what the input line holds after a keystroke
InputInputs == { "nul", "echo -" }

LineInit ==
    /\ commands = RegistryEffect(<<>>, InputCommands)
    /\ history = <<>>
    /\ commandHistory = <<>>
    /\ promises = <<>>
    /\ last = NoOp("init")
    /\ nsub = 0
    /\ parseIn = NoCall
    /\ parseOut = NotParsed
    /\ InputInit
    /\ CallInit

InputNext ==
    \/ \E newValue \in InputInputs : HandleChange(newValue)
    \/ ArrowUp
    \/ ArrowDown
    \/ \E atEnd \in BOOLEAN : ArrowRight(atEnd)
    \/ \E atEnd \in BOOLEAN : Tab(atEnd)
    \/ HandleSubmit(inputValue)

InputSpec == LineInit /\ [][InputNext]_vars

-----------------------------------------------------------------------------
(* TerminalProvider: its renders, its effect and registerCommand            *)

MaxRenders == 3

\* the commands of the host application
ProviderCommands ==
    << Command(41, "hello", <<"hi">>, Handler(FALSE, "return", Node("Hello, World!"))),
       Command(42, "greet", <<>>,     Handler(FALSE, "return", Node("Hello"))) >>

\* the arrays the host passes as the commands prop: allCommands, and another
\* array of the same commands
CommandsProps ==
    { [array |-> 1, commands |-> ProviderCommands],
      [array |-> 2, commands |-> ProviderCommands] }

\* the commands components register at run time
DynamicCommands ==
    { Command(43, "dynamic", <<>>, Handler(FALSE, "return", Node("registered at runtime"))),
      Command(44, "status", <<"st">>, Handler(FALSE, "return", Node("up"))) }

ProviderLines == { "hello", "hi", "dynamic", "nope" }

Mounted == provider.renders # <<>>

\* the body of TerminalProvider runs with the commands prop cmds: it creates a
\* registry and a store over it, schedules the registering effect on the first
\* render and when the commands prop is another array than at the render
\* before, and hands the store and the registry to its children
Render(cmds) ==
    LET registry == <<>>
    IN  /\ Len(provider.renders) < MaxRenders
        /\ Mounted => ~ provider.pending
        /\ provider' =
               [renders |-> Append(provider.renders, registry),
                commands |-> cmds,
                pending |-> ~ Mounted \/ provider.commands.array # cmds.array,
                changed |-> Mounted /\ (provider.changed \/ provider.commands.array # cmds.array),
                dynamic |-> IF Mounted THEN provider.dynamic ELSE {}]
        /\ commands' = registry
        /\ history' = <<>>
        /\ commandHistory' = <<>>
        /\ resetInputState
        /\ last' = NoOp("render")
        /\ UNCHANGED <<promises, nsub, parserVars, made, earlier, presses>>

\* useEffect(() => { commands.forEach(cmd => registry.register(cmd)) }, [commands]),
\* over the registry of the render that scheduled it
CommandsEffect ==
    /\ Mounted
    /\ provider.pending
    /\ LET r == Len(provider.renders)
           registry == RegisterAll(provider.renders[r], provider.commands.commands)
       IN  /\ provider' = [provider EXCEPT !.renders[r] = registry, !.pending = FALSE]
           /\ commands' = registry
    /\ last' = NoOp("effect")
    /\ UNCHANGED <<history, commandHistory, promises, nsub, parserVars, inputVars,
                   made, earlier, presses>>

\* registerCommand of the context value: useCallback with no dependencies keeps
\* the function of the first render, which registers in the registry of that
\* render
RegisterCommand(command) ==
    /\ Mounted
    /\ ~ provider.pending
    /\ command \notin provider.dynamic
    /\ provider' = [provider EXCEPT !.renders[1] = register(@, command),
                                    !.dynamic = @ \cup {command}]
    /\ commands' = IF Len(provider.renders) = 1 THEN register(commands, command) ELSE commands
    /\ last' = [NoOp("registerCommand") EXCEPT !.name = command.name]
    /\ UNCHANGED <<history, commandHistory, promises, nsub, parserVars, inputVars,
                   made, earlier, presses>>

ProviderInit ==
    /\ commands = <<>>
    /\ history = <<>>
    /\ commandHistory = <<>>
    /\ promises = <<>>
    /\ last = NoOp("init")
    /\ nsub = 0
    /\ parseIn = NoCall
    /\ parseOut = NotParsed
    /\ InputInit
    /\ CallInit

ProviderNext ==
    \/ \E cmds \in CommandsProps : Render(cmds)
    \/ CommandsEffect
    \/ \E command \in DynamicCommands : RegisterCommand(command)
    \/ \E line \in ProviderLines : Mounted /\ ~ provider.pending /\ SubmitCommand(line)

ProviderSpec == ProviderInit /\ [][ProviderNext]_vars

\* the output helpers and the discriminator, called by a handler or a renderer
\* while the terminal prints and clears

\* arguments handed to the helpers
Texts == { Str(""), Str("Result: 10") }

Configs == { Undefined, Obj(<<Prop("className", Str("big"))>>) }

StyledConfigs ==
    Configs \cup { Obj(<<Prop("styleType", Str("textSuccess")), Prop("className", Str("big"))>>) }

LineArrays ==
    { Arr(<<>>),
      Arr(<<Obj(<<Prop("text", Str("a")), Prop("styleType", Str("textError"))>>)>>) }

ItemArrays ==
    { Arr(<<>>),
      Arr(<<Obj(<<Prop("content", Str("a"))>>), Obj(<<Prop("content", Str("b"))>>)>>) }

\* a well-formed table, one whose row is not an array, and one without rows
Tables ==
    { Obj(<<Prop("headers", Arr(<<Str("h")>>)), Prop("rows", Arr(<<Arr(<<Str("c")>>)>>))>>),
      Obj(<<Prop("headers", Arr(<<Str("h")>>)), Prop("rows", Arr(<<Str("c")>>))>>),
      Obj(<<Prop("headers", Arr(<<Str("h")>>))>>) }

JsonData == { Null, Num(1), Obj(<<Prop("a", Arr(<<Num(1), Str("x")>>))>>) }

CustomContents == { Node("x"), Str("x") }

\* values handed to the discriminator
Discriminated ==
    { Undefined, Null, False, True, Num(0), Num(1), Str(""), Str("text"), Function,
      Arr(<<>>), Node("x"), ErrorElement("bad"), ErrorObj("bad"), Promise(1),
      Output("text", "done"),
      Obj(<<>>),
      Obj(<<Prop("type", Str("text"))>>),
      Obj(<<Prop("content", Str("x"))>>),
      Obj(<<Prop("type", Str("text")), Prop("content", Str("x"))>>),
      Obj(<<Prop("content", Null), Prop("type", Str("table"))>>),
      Obj(<<Prop("type", Str("bogus")), Prop("content", Str("x"))>>),
      Obj(<<Prop("type", Num(1)), Prop("content", Str("x"))>>),
      Obj(<<Prop("type", Undefined), Prop("content", Undefined)>>),
      printLine(Str(""), Undefined),
      printError(Str("Result: 10"), Obj(<<Prop("className", Str("big"))>>)),
      printTable(Obj(<<Prop("headers", Arr(<<Str("h")>>))>>), Undefined),
      printCustom(Node("x"), Undefined) }

OutputInit ==
    /\ commands = <<>>
    /\ history = <<>>
    /\ commandHistory = <<>>
    /\ promises = <<>>
    /\ last = NoOp("init")
    /\ nsub = 0
    /\ parseIn = NoCall
    /\ parseOut = NotParsed
    /\ InputInit
    /\ CallInit

\* a helper called with args returns output, while the terminal holds history
Make_Stamped(fn, args, output) ==
    /\ made' = [fn |-> fn, args |-> args, during |-> history,
                returned |-> Obj(Append(output.props, Prop("id", Num(Len(history)))))]
    /\ earlier' = IF earlier = NotCalled THEN made' ELSE earlier
    /\ UNCHANGED <<commands, history, commandHistory, promises, last, nsub,
                   parserVars, inputVars, presses, provider>>

Make(fn, args, output) ==
    /\ made' = [fn |-> fn, args |-> args, during |-> history, returned |-> output]
    /\ earlier' = IF earlier = NotCalled THEN made' ELSE earlier
    /\ UNCHANGED <<commands, history, commandHistory, promises, last, nsub,
                   parserVars, inputVars, presses, provider>>

\* the helper called fn applied to its arguments
Helper(fn, argument, config) ==
    CASE fn = "printLine" -> printLine(argument, config)
      [] fn = "printMultiLine" -> printMultiLine(argument, config)
      [] fn = "printSuccess" -> printSuccess(argument, config)
      [] fn = "printError" -> printError(argument, config)
      [] fn = "printWarning" -> printWarning(argument, config)
      [] fn = "printCode" -> printCode(argument, config)
      [] fn = "printList" -> printList(argument, config)
      [] fn = "printTable" -> printTable(argument, config)
      [] fn = "printJson" -> printJson(argument, config)
      [] fn = "printMarkdown" -> printMarkdown(argument, config)
      [] fn = "printCustom" -> printCustom(argument, config)

\* the first arguments and the configs handed to each helper
HelperArguments ==
    [printLine |-> Texts, printMultiLine |-> LineArrays, printSuccess |-> Texts,
     printError |-> Texts, printWarning |-> Texts, printCode |-> Texts,
     printList |-> ItemArrays, printTable |-> Tables, printJson |-> JsonData,
     printMarkdown |-> Texts, printCustom |-> CustomContents]

HelperConfigs(fn) ==
    IF fn \in {"printLine", "printSuccess", "printError", "printWarning"}
    THEN StyledConfigs ELSE Configs

\* a handler builds an Output with one of the helpers
CallHelper ==
    \E fn \in DOMAIN HelperArguments :
        \E argument \in HelperArguments[fn], config \in HelperConfigs(fn) :
            Make(fn, <<argument, config>>, Helper(fn, argument, config))

\* if (!isOutputObject(output)) ...
IsOutputObject ==
    \E output \in Discriminated :
        /\ made' = [fn |-> "isOutputObject", args |-> <<output>>, during |-> history,
                    returned |-> isOutputObject(output)]
        /\ UNCHANGED <<commands, history, commandHistory, promises, last, nsub,
                       parserVars, inputVars, earlier, presses, provider>>

OutputNext ==
    \/ CallHelper
    \/ IsOutputObject
    \/ print
    \/ ClearHistory

OutputSpec == OutputInit /\ [][OutputNext]_vars

\* the handlers of the calculator called with the operands of a line

\* the words given as operands
OperandWords ==
    { "5", "3", "2", "10", "1e1", "0", "-0", "0.125", "0.008", "-2.5", "abc", "5x",
      "Infinity" }

\* a call of a handler that has not returned
Called(fn, operands) ==
    [fn |-> fn, args |-> <<[key |-> "_", val |-> Arr(operands)]>>, during |-> <<>>,
     returned |-> [t |-> "pending"], did |-> <<>>]

CalcInit ==
    /\ commands = <<>>
    /\ history = <<>>
    /\ commandHistory = <<>>
    /\ promises = <<>>
    /\ last = NoOp("init")
    /\ nsub = 0
    /\ parseIn = NoCall
    /\ parseOut = NotParsed
    /\ InputInit
    /\ made \in { Called(fn, operands) :
                     fn \in {"add", "div"},
                     operands \in UNION { [1..n -> OperandWords] : n \in 0..MaxOperands } }
    /\ earlier = NotCalled
    /\ presses = NotPressed
    /\ provider = NotMounted

\* the handler called returns
Return(outcome) ==
    /\ made' = [made EXCEPT !.returned = outcome.returned, !.did = outcome.did]
    /\ UNCHANGED <<commands, history, commandHistory, promises, last, nsub,
                   parserVars, inputVars, earlier, presses, provider>>

AddCommand ==
    /\ made.fn = "add"
    /\ made.returned = [t |-> "pending"]
    /\ \E outcome \in addHandler(made.args) : Return(outcome)

DivideCommand ==
    /\ made.fn = "div"
    /\ made.returned = [t |-> "pending"]
    /\ \E outcome \in divideHandler(made.args) : Return(outcome)

CalcNext ==
    \/ AddCommand
    \/ DivideCommand

CalcSpec == CalcInit /\ [][CalcNext]_vars

-----------------------------------------------------------------------------
(* Properties of the dispatcher *)

Dispatched == last.op \in {"submit", "handleSubmit"} /\ last.sub > 0

LastEntry == history[Len(history)]

\* the history after one entry for the line was appended to h
OneAppended(h) ==
    /\ Len(history) = Len(h) + 1
    /\ SubSeq(history, 1, Len(h)) = h
    /\ LastEntry.command = last.line

\* the text a thrown value carries: an Error's message, a thrown string itself
ThrownMessage(v) == IF v.t \in {"Error", "string"} THEN v.s ELSE v.t

\* item.type of a history item, undefined when the item has no such property
Kind(item) == IF "type" \in DOMAIN item THEN item.type ELSE "undefined"

\* C1: when the handler of a registered command throws synchronously, whatever
\* the thrown value, submitCommand returns normally and exactly one entry with
\* the message of the thrown value is appended to the history
C1_ThrowContained ==
    (Dispatched /\ last.found /\ last.handler.kind = "throw") =>
        /\ ~last.escaped
        /\ OneAppended(last.mid)
        /\ LastEntry.output =
               ErrorElement("Error executing command: " \o ThrownMessage(last.handler.val))

\* C2: a non-blank line whose first word is not registered throws nothing,
\* invokes no handler and appends exactly one error entry naming the command
C2_UnknownCommandReported ==
    (Dispatched /\ ~IsBlank(last.name) /\ ~last.found) =>
        /\ ~last.escaped
        /\ last.invoked = 0
        /\ OneAppended(last.pre)
        /\ LastEntry.output = NotFound(last.name)

\* C3: no handler is started while the promise of an earlier handler is pending
C3_OneInFlight ==
    (Dispatched /\ last.invoked > 0) => last.inflight = 0

\* C4: entries appear in the history in submission order: every step keeps the
\* entries already there in place (or empties the history) and puts a new entry
\* after them, at the end, also while an earlier handler's promise is pending
C4_SubmissionOrder ==
    [][ \E base \in {history, <<>>} :
            \/ history' = base
            \/ /\ Len(history') = Len(base) + 1
               /\ SubSeq(history', 1, Len(base)) = base
               /\ last'.op \in {"submit", "handleSubmit"} => history'[Len(history')].command = last'.line
      ]_vars

\* C4 witness: a synchronous command was submitted, and its entry added after
\* the entry of an earlier command whose promise is still pending
C4_Witness ==
    /\ Dispatched /\ last.found /\ last.handler.kind = "return"
    /\ Len(history) >= 2
    /\ LastEntry.command = last.line
    /\ \E i \in 1..(Len(history) - 1) :
          /\ history[i].output.t = "promise"
          /\ promises[history[i].output.pid].state = "pending"

\* C5: the entry of an asynchronous handler is produced from the value its
\* promise settles to, never from the promise, and a rejection is caught
C5_AwaitedUniformly ==
    /\ \A i \in 1..Len(history) : history[i].output.t # "promise"
    /\ \A p \in 1..Len(promises) : promises[p].state # "rejected"

\* C6: a returned Result is normalized into the entry: success gives its output
\* with kind standard, failure its error with kind error, and a bare payload
\* is kept as it is with kind standard
C6_ResultNormalized ==
    (Dispatched /\ last.found /\ last.handler.kind = "return"
        /\ last.handler.val \notin {Null, Undefined}) =>
        LET r == last.handler.val
        IN  /\ OneAppended(last.mid)
            /\ LastEntry.output = IF r.t = "result" THEN r.payload ELSE r
            /\ Kind(LastEntry) =
                   IF r.t = "result" /\ ~r.success THEN "error" ELSE "standard"

\* C7: when the handler returns undefined or null, no entry is appended and no
\* error raised: the history is what the handler's own clearHistory call left
C7_NullAppendsNothing ==
    (Dispatched /\ last.found /\ last.handler.kind = "return"
        /\ last.handler.val \in {Null, Undefined}) =>
        /\ ~last.escaped
        /\ history = IF last.handler.clears THEN <<>> ELSE last.pre

C7_Witness ==
    /\ Dispatched /\ last.found /\ last.handler.kind = "return"
    /\ last.handler.val = Null /\ last.handler.clears
    /\ last.pre # <<>> /\ history = <<>>

\* C8: submitting an empty or whitespace-only line invokes no handler and
\* leaves history and commandHistory unchanged
C8_BlankIsNoOp ==
    (last.op \in {"submit", "handleSubmit"} /\ Trim(last.line) = "") =>
        /\ last.invoked = 0
        /\ ~last.found
        /\ history = last.pre
        /\ commandHistory = last.preCommandHistory

C8_Witness ==
    /\ last.op = "submit" /\ last.line = " \t" /\ last.sub > 0
    /\ history # <<>> /\ commandHistory # <<>>

-----------------------------------------------------------------------------
(* Properties of the registry *)

Occurrences(seq, x) == Cardinality({i \in 1..Len(seq) : seq[i] = x})

\* C10: immediately after register(spec), the name and every alias of spec
\* resolve to that same spec object, and getAll() holds it exactly once
C10_AliasTransparency ==
    last.op = "register" =>
        LET spec == last.command
        IN  /\ get(commands, spec.name) = spec
            /\ \A i \in 1..Len(spec.aliases) :
                   get(commands, spec.aliases[i]) = get(commands, spec.name)
            /\ Occurrences(getAll(commands), spec) = 1

\* the keys under which register(spec) stores spec
KeysOf(spec) == {spec.name} \cup {spec.aliases[i] : i \in 1..Len(spec.aliases)}

\* the distinct specs that some key resolves to
Resolved(m) == {m[i].val : i \in 1..Len(m)}

\* C11: in every state reached by register and clear calls, getAll() returns
\* each distinct spec that some key resolves to exactly once, and no other spec
C11_GetAllDistinct ==
    LET all == getAll(commands)
    IN  /\ \A spec \in Resolved(commands) : Occurrences(all, spec) = 1
        /\ \A i \in 1..Len(all) : all[i] \in Resolved(commands)

\* C12: register is last-write-wins and local: after register(spec) the name
\* and every alias of spec resolve to spec, whatever owned them before, and
\* every other key resolves to what it resolved to before the call
C12_RegisterLastWriteWins ==
    last.op = "register" =>
        \A k \in ProbeKeys :
            get(commands, k) =
                IF k \in KeysOf(last.command) THEN last.command
                ELSE get(last.preCommands, k)

\* C12 witness: the registered spec took a key over from another spec, while
\* another key still resolves to the spec it had before
C12_Witness ==
    /\ last.op = "register"
    /\ \E k \in KeysOf(last.command) :
          get(last.preCommands, k) \notin {Undefined, last.command}
    /\ \E k \in ProbeKeys \ KeysOf(last.command) :
          get(commands, k) # Undefined

\* C13: get returns undefined for every key that is not registered as a name
\* or alias, so for every key after clear() and for a key that differs from a
\* registered key only in letter case
C13_UnregisteredIsUndefined ==
    /\ \A k \in ProbeKeys :
          (\A spec \in Resolved(commands) : k \notin KeysOf(spec)) =>
              get(commands, k) = Undefined
    /\ last.op = "registryClear" => \A k \in ProbeKeys : get(commands, k) = Undefined

\* C13 witness: "a" is registered, and "A", not registered, is not found
C13_Witness ==
    /\ get(commands, "a") # Undefined
    /\ \A spec \in Resolved(commands) : "A" \notin KeysOf(spec)
    /\ get(commands, "A") = Undefined

-----------------------------------------------------------------------------
(* Properties of parseCommand *)

Parsed == parseOut # NotParsed

\* the positions of the tokens after the command name
Tokens == IF Parsed THEN 1..Len(parseOut.rawArgs) ELSE {}

\* the loop got as far as reading rawArgs[k] as current or as a value
Reached(k) == Parsed /\ k <= Len(parseOut.rawArgs) /\ Len(parseOut.did) >= k - 1

\* the arguments object when the loop turns to rawArgs[k]
ArgsBefore(k) == IF k = 1 THEN EmptyArgs.args ELSE parseOut.did[k - 1].args

\* the loop has dealt with rawArgs[k]
Dealt(k) == Parsed /\ k <= Len(parseOut.did)

\* a token without the double quotes around it, if it has them
Unquoted(tok) ==
    IF Len(tok) >= 2 /\ Char(tok, 1) = Quote /\ Char(tok, Len(tok)) = Quote
    THEN SubSeq(tok, 2, Len(tok) - 1)
    ELSE tok

\* the keys of an arguments object other than the positional entry
FlagKeys(args) == {args[k].key : k \in 1..Len(args)} \ {"_"}

\* rawArgs[k] is the first token that is exactly "--"
FirstTerminator(k) ==
    /\ parseOut.rawArgs[k] = "--"
    /\ \A j \in 1..(k - 1) : parseOut.rawArgs[j] # "--"

\* C14: when the loop reads the token "--", every later token, without its
\* surrounding quotes and in order, is appended to the positional sequence, and
\* nothing else of the arguments object changes: no later token records a flag
C14_TerminatorEndsFlags ==
    \A k \in Tokens :
        (Reached(k) /\ FirstTerminator(k)) =>
            LET rawArgs == parseOut.rawArgs
                before == ArgsBefore(k)
                rest == SubSeq(rawArgs, k + 1, Len(rawArgs))
                after == parseOut.did[Len(rawArgs)].args
            IN  /\ ~ parseOut.threw
                /\ Len(parseOut.did) = Len(rawArgs)
                /\ MapGet(after, "_") =
                       Arr(MapGet(before, "_").items \o [j \in 1..Len(rest) |-> Unquoted(rest[j])])
                /\ FlagKeys(after) = FlagKeys(before)
                /\ \A key \in FlagKeys(before) : MapGet(after, key) = MapGet(before, key)

\* rawArgs[k] stands before every "--" terminator of the line
BeforeTerminator(k) == \A j \in 1..k : parseOut.rawArgs[j] # "--"

\* the line gives a flag with this key in the form -key
GivenShort(key) ==
    \E k \in 1..Len(parseOut.rawArgs) :
        BeforeTerminator(k) /\ parseOut.rawArgs[k] = "-" \o key

\* the line gives a flag with this key in any form: -key, --key or --key=value
Given(key) ==
    \E k \in 1..Len(parseOut.rawArgs) :
        /\ BeforeTerminator(k)
        /\ \/ parseOut.rawArgs[k] \in {"-" \o key, "--" \o key}
           \/ StartsWith(parseOut.rawArgs[k], "--" \o key \o "=")

\* the arguments of the schema that declare an alias
Aliased == {d \in {parseIn.commandArgsDef[k] : k \in 1..Len(parseIn.commandArgsDef)} : d.alias # ""}

\* C15: when parseCommand returns and the line gives a flag by its alias -a
\* and not by its name n, the returned object holds the flag's value under
\* both a and n, also when a "--" terminator follows on the line
C15_AliasMirrored ==
    (Parsed /\ ~ parseOut.threw) =>
        \A d \in Aliased :
            (GivenShort(d.alias) /\ ~ Given(d.name)) =>
                /\ MapGet(parseOut.args, d.alias) # Undefined
                /\ MapGet(parseOut.args, d.name) = MapGet(parseOut.args, d.alias)

\* C15 witness: -n took a value, a "--" terminator followed, and the value is
\* under name as well
C15_Witness ==
    /\ Parsed /\ ~ parseOut.threw
    /\ \E d \in Aliased :
          /\ d.name = "name"
          /\ GivenShort(d.alias) /\ ~ Given(d.name)
          /\ \E k \in 1..Len(parseOut.rawArgs) : parseOut.rawArgs[k] = "--"
          /\ MapGet(parseOut.args, d.alias).t = "string"
          /\ MapGet(parseOut.args, d.name) = MapGet(parseOut.args, d.alias)

\* rawArgs[k] gives a flag with this key
Gives(k, key) ==
    /\ BeforeTerminator(k)
    /\ \/ parseOut.rawArgs[k] \in {"-" \o key, "--" \o key}
       \/ StartsWith(parseOut.rawArgs[k], "--" \o key \o "=")

\* C16: when parseCommand returns and the line gives a flag both by its name n
\* and by its alias -a, the returned object holds under n the value that the
\* line gave for n, not the alias's value
C16_NameNotOverwritten ==
    (Parsed /\ ~ parseOut.threw) =>
        \A d \in Aliased : \A k \in 1..Len(parseOut.rawArgs) :
            ( /\ Gives(k, d.name)
              /\ \A j \in (k + 1)..Len(parseOut.rawArgs) : ~ Gives(j, d.name)
              /\ GivenShort(d.alias) ) =>
                MapGet(parseOut.args, d.name) = MapGet(parseOut.did[k].args, d.name)

\* rawArgs[k] is a long flag --key without "="
LongFlag(k) ==
    LET tok == parseOut.rawArgs[k]
    IN  BeforeTerminator(k) /\ StartsWith(tok, "--") /\ IndexOf(tok, "=") = -1

\* rawArgs[k] is a short flag -key: one "-" and a remainder that is no number
ShortFlag(k) ==
    LET tok == parseOut.rawArgs[k]
    IN  /\ BeforeTerminator(k)
        /\ StartsWith(tok, "-") /\ ~ StartsWith(tok, "--")
        /\ IsNaNNumber(SubSeq(tok, 2, Len(tok)))

FlagKey(k) ==
    LET tok == parseOut.rawArgs[k]
    IN  IF StartsWith(tok, "--") THEN SubSeq(tok, 3, Len(tok)) ELSE SubSeq(tok, 2, Len(tok))

Declared == {parseIn.commandArgsDef[k] : k \in 1..Len(parseIn.commandArgsDef)}

\* what the loop must have done with a flag rawArgs[k] that takes the next
\* token as its value (takes), or that does not
FlagOutcome(k, takes) ==
    LET did == parseOut.did
        key == FlagKey(k)
    IN  /\ Dealt(k)
        /\ IF takes
           THEN /\ did[k].what = "valued"
                /\ MapGet(did[k].args, key) = Str(Unquoted(parseOut.rawArgs[k + 1]))
                /\ did[k + 1].what = "value"
                /\ MapGet(did[k + 1].args, "_") = MapGet(ArgsBefore(k), "_")
           ELSE /\ did[k].what = "flag"
                /\ MapGet(did[k].args, key) = True
                /\ Dealt(k + 1) => did[k + 1].what # "value"

\* a following token exists and does not start with "-"
ValueFollows(k) ==
    k < Len(parseOut.rawArgs) /\ ~ StartsWith(parseOut.rawArgs[k + 1], "-")

\* C17 as stated: a long flag is looked up among the names and a short flag
\* among the aliases; the flag takes the following token as its value exactly
\* when an ArgSpec is found, its type is not boolean, and a following token
\* exists that does not start with "-"; otherwise the flag is true and the
\* following token is parsed on its own
C17_LookupByForm ==
    \A k \in Tokens :
        (Reached(k) /\ (LongFlag(k) \/ ShortFlag(k))) =>
            LET found == {d \in Declared : IF LongFlag(k) THEN d.name = FlagKey(k)
                                                          ELSE d.alias = FlagKey(k)}
            IN  FlagOutcome(k, (\E d \in found : d.type # "boolean") /\ ValueFollows(k))

\* C17 amended: a long and a short flag alike are looked up among the names
\* and the aliases; the flag takes the following token as its value exactly
\* when an ArgSpec is found, its type is not boolean, and a following token
\* exists that does not start with "-", and that token is not added to the
\* positional sequence; otherwise the flag is true and the following token is
\* parsed on its own
C17_FlagConsumption ==
    \A k \in Tokens :
        (Reached(k) /\ (LongFlag(k) \/ ShortFlag(k))) =>
            LET found == {d \in Declared : FlagKey(k) \in {d.name, d.alias}}
            IN  FlagOutcome(k, (\E d \in found : d.type # "boolean") /\ ValueFollows(k))

\* C17 witness: the long flag --n, found by its alias, took the quoted token
\* after it as its value
C17_Witness ==
    /\ Parsed
    /\ \E k \in 1..Len(parseOut.rawArgs) :
          /\ Reached(k) /\ LongFlag(k) /\ FlagKey(k) = "n"
          /\ parseOut.did[k].what = "valued"
          /\ MapGet(parseOut.did[k].args, "n") = Str("hello world")

\* rawArgs[k] starts with one "-" and the loop reads it as current
SingleDash(k) ==
    LET tok == parseOut.rawArgs[k]
    IN  BeforeTerminator(k) /\ StartsWith(tok, "-") /\ ~ StartsWith(tok, "--")

\* the text is a number: it is not empty and Number() converts all of it
IsNumber(text) == text # "" /\ ~ IsNaNNumber(text)

\* C18: a token that starts with one "-" and whose remainder is a number is
\* appended to the positional sequence as written and records no flag; with
\* any other remainder the token is treated as a short flag
C18_NegativeNumberIsPositional ==
    \A k \in Tokens :
        (Reached(k) /\ SingleDash(k)) =>
            LET tok == parseOut.rawArgs[k]
                before == ArgsBefore(k)
            IN  /\ Dealt(k)
                /\ IF IsNumber(SubSeq(tok, 2, Len(tok)))
                   THEN /\ MapGet(parseOut.did[k].args, "_") =
                              Arr(Append(MapGet(before, "_").items, tok))
                        /\ FlagKeys(parseOut.did[k].args) = FlagKeys(before)
                   ELSE /\ parseOut.did[k].what \in {"flag", "valued"}
                        /\ MapGet(parseOut.did[k].args, FlagKey(k)) # Undefined

\* rawArgs[k] has the form --key=value and the loop reads it as current
KeyValue(k) ==
    LET tok == parseOut.rawArgs[k]
    IN  BeforeTerminator(k) /\ StartsWith(tok, "--") /\ \E e \in 3..Len(tok) : Char(tok, e) = "="

\* the position of the first "=" of a token
FirstEquals(tok) ==
    CHOOSE e \in 1..Len(tok) : Char(tok, e) = "=" /\ \A j \in 1..(e - 1) : Char(tok, j) # "="

\* C19: a token --key=value records, under the text between "--" and the
\* first "=", everything after that "=" without surrounding quotes; it changes
\* no other entry, and the token after it is not consumed as a value, whatever
\* type the schema declares for key
C19_KeyEqualsValue ==
    \A k \in Tokens :
        (Reached(k) /\ KeyValue(k)) =>
            LET tok == parseOut.rawArgs[k]
                key == SubSeq(tok, 3, FirstEquals(tok) - 1)
                value == SubSeq(tok, FirstEquals(tok) + 1, Len(tok))
                before == ArgsBefore(k)
            IN  /\ Dealt(k)
                /\ MapGet(parseOut.did[k].args, key) = Str(Unquoted(value))
                /\ \A other \in (FlagKeys(before) \cup {"_"}) \ {key} :
                      MapGet(parseOut.did[k].args, other) = MapGet(before, other)
                /\ Dealt(k + 1) => parseOut.did[k + 1].what # "value"

\* C19 witness: --name="a=b c" recorded a=b c under name, which the schema
\* declares as a string, and the token after it became a positional
C19_Witness ==
    /\ Parsed
    /\ \E d \in Declared : d.name = "name" /\ d.type = "string"
    /\ \E k \in 1..Len(parseOut.rawArgs) :
          /\ Reached(k) /\ KeyValue(k) /\ Dealt(k + 1)
          /\ MapGet(parseOut.did[k].args, "name") = Str("a=b c")
          /\ parseOut.rawArgs[k + 1] = "x"
          /\ parseOut.did[k + 1].what = "positional"

\* the word is one double-quoted run: a quote, text without quotes, a quote
QuotedRun(word) ==
    /\ Len(word) >= 2 /\ Char(word, 1) = Quote /\ Char(word, Len(word)) = Quote
    /\ \A j \in 2..(Len(word) - 1) : Char(word, j) # Quote

\* rawArgs[k] is read as current and is neither a flag nor a terminator
PositionalToken(k) ==
    /\ BeforeTerminator(k)
    /\ ~ StartsWith(parseOut.rawArgs[k], "-")
    /\ Dealt(k) => parseOut.did[k].what # "value"

\* C20: the tokens after the command name are the words as typed, a
\* double-quoted run being one token also when it holds whitespace; and a
\* quoted run read as a positional is appended to the positional sequence
\* once, as its inner text without the quotes
C20_QuotedRunIsOneToken ==
    Parsed =>
        /\ parseOut.rawArgs = parseIn.words
        /\ \A k \in Tokens :
              (Reached(k) /\ QuotedRun(parseOut.rawArgs[k]) /\ PositionalToken(k)) =>
                  LET tok == parseOut.rawArgs[k]
                  IN  /\ Dealt(k)
                      /\ MapGet(parseOut.did[k].args, "_") =
                             Arr(Append(MapGet(ArgsBefore(k), "_").items,
                                        SubSeq(tok, 2, Len(tok) - 1)))

\* the tokens among the first k that the loop took as positionals, without
\* surrounding quotes and in input order
RECURSIVE PositionalTokens(_)
PositionalTokens(k) ==
    IF k = 0 THEN <<>>
    ELSE IF parseOut.did[k].what \in {"positional", "number", "rest"}
    THEN Append(PositionalTokens(k - 1), Unquoted(parseOut.rawArgs[k]))
    ELSE PositionalTokens(k - 1)

\* C21: for every line and schema parseCommand returns normally, and the
\* positional entry of the returned object is a sequence holding exactly the
\* tokens that are neither flags nor values consumed by a flag, in input order
C21_PositionalIsSequence ==
    Parsed =>
        /\ ~ parseOut.threw
        /\ Len(parseOut.did) = Len(parseOut.rawArgs)
        /\ MapGet(parseOut.args, "_") = Arr(PositionalTokens(Len(parseOut.rawArgs)))

-----------------------------------------------------------------------------
(* Properties of getSuggestions *)

\* the input line has just changed, and suggestions holds what getSuggestions
\* returned for it
Suggested == last.op = "handleChange" /\ last.line # ""

\* the text without its leading whitespace
Typing == TrimStart(last.line)

HasSpace(text) == \E k \in 1..Len(text) : IsSpace(Char(text, k))

\* the elements of a sequence, each of which occurs once in it
Elements(seq) == {seq[k] : k \in 1..Len(seq)}

EachOnce(seq) == \A i, j \in 1..Len(seq) : seq[i] = seq[j] => i = j

Ascending(seq) == \A i, j \in 1..Len(seq) : i < j => Precedes(seq[i], seq[j])

\* C22: when the text, without leading whitespace, is one word with no
\* whitespace after it, the suggestions are exactly the primary names of the
\* registered commands that start with the word, each once, in ascending order
C22_CommandNameStage ==
    (Suggested /\ Typing # "" /\ ~ HasSpace(Typing)) =>
        /\ Elements(suggestions) =
              {spec.name : spec \in {c \in Resolved(commands) : StartsWith(c.name, Typing)}}
        /\ EachOnce(suggestions)
        /\ Ascending(suggestions)

\* C22 witness: the word h gives help and history, and not the alias h of help
C22_Witness ==
    /\ Suggested /\ Typing = "h"
    /\ get(commands, "h") # Undefined
    /\ suggestions = <<"help", "history">>

\* the text after the last whitespace of the line (empty when it ends in one)
RECURSIVE LastWord(_)
LastWord(text) ==
    IF text = "" \/ IsSpace(Char(text, Len(text))) THEN ""
    ELSE LastWord(SubSeq(text, 1, Len(text) - 1)) \o Char(text, Len(text))

\* the command that the first word of the line resolves to
FirstWordCommand == get(commands, SplitFirst(Typing))

\* the line is past the command name, its first word resolves to a command
\* that declares args, and its last word starts with "-"
FlagStage ==
    /\ Suggested /\ HasSpace(Typing)
    /\ FirstWordCommand # Undefined /\ HasArgs(FirstWordCommand)
    /\ StartsWith(LastWord(Typing), "-")

\* C23: in the flag stage the suggestions are exactly, in ascending order,
\* --name for every declared arg whose --name starts with the last word, and
\* -alias for every declared arg with an alias whose -alias starts with it
C23_FlagStage ==
    FlagStage =>
        LET args == FirstWordCommand.args
            long == {k \in 1..Len(args) : StartsWith("--" \o args[k].name, LastWord(Typing))}
            short == {k \in 1..Len(args) :
                         args[k].alias # "" /\ StartsWith("-" \o args[k].alias, LastWord(Typing))}
        IN  /\ Elements(suggestions) =
                  {"--" \o args[k].name : k \in long} \cup {"-" \o args[k].alias : k \in short}
            /\ Len(suggestions) = Cardinality(long) + Cardinality(short)
            /\ Ascending(suggestions)

\* C23 witness: for echo, "-" gives both flags of uppercase and the flag of text
C23_Witness ==
    /\ FlagStage /\ Typing = "echo -"
    /\ suggestions = <<"--text", "--uppercase", "-u">>

\* C24: the suggestions are empty when the line is empty or only whitespace,
\* and when it is past the command name and the first word does not resolve,
\* or resolves to a command without args, or the last word does not start
\* with "-", as after a line ending in whitespace
C24_EmptyOutsideStages ==
    ( /\ last.op = "handleChange"
      /\ \/ Typing = ""
         \/ /\ HasSpace(Typing)
            /\ \/ FirstWordCommand = Undefined
               \/ ~ HasArgs(FirstWordCommand)
               \/ ~ StartsWith(LastWord(Typing), "-") ) =>
        suggestions = <<>>

\* C24 witness: echo resolves and declares args, and the line ends in
\* whitespace after a flag
C24_Witness ==
    /\ last.op = "handleChange" /\ last.line = "echo -u "
    /\ FirstWordCommand # Undefined /\ HasArgs(FirstWordCommand)
    /\ suggestions = <<>>

\* C25: a change of the input line, which computes the suggestions, leaves the
\* registry, the history, the command history and the dispatch state with its
\* pending handlers as they were
C25_SuggestingChangesNothing ==
    [][last'.op = "handleChange" =>
           UNCHANGED <<commands, history, commandHistory, promises, nsub>>]_vars

\* C25 witness: suggestions were computed while a handler was pending and the
\* history held an entry
C25_Witness ==
    /\ last.op = "handleChange"
    /\ suggestions # <<>>
    /\ Pending(promises) # {}
    /\ history # <<>>

-----------------------------------------------------------------------------
(* Properties of the output values *)

Discriminating == made.fn = "isOutputObject"

\* the kind of every helper
KindOf ==
    [printLine |-> "text", printMultiLine |-> "multi_line", printSuccess |-> "success",
     printError |-> "error", printWarning |-> "warning", printCode |-> "code",
     printList |-> "list", printTable |-> "table", printJson |-> "json",
     printMarkdown |-> "markdown", printCustom |-> "custom"]

Made == made.fn \in DOMAIN KindOf

\* the recognized output kinds
Recognized == {OutputType[kind] : kind \in DOMAIN OutputType}

\* the value of property `type` of an object
TypeTag(value) ==
    CASE value.t = "object" -> MapGet(value.props, "type")
      [] value.t = "output" -> Str(value.type)
      [] OTHER -> Str("element type")

IsObject(value) == value.t \notin {"undefined", "null", "string", "number", "boolean", "function"}

Carries(value, key) == IsObject(value) /\ In(key, value)

\* C26: the discriminator returns true exactly for an object that carries a
\* `type` tag of a recognized output kind and a `content` field, and a false
\* result for everything else
C26_Discriminator ==
    Discriminating =>
        LET output == made.args[1]
            isOutput == /\ Carries(output, "type")
                        /\ TypeTag(output) \in {Str(kind) : kind \in Recognized}
                        /\ Carries(output, "content")
        IN  /\ (made.returned = True) <=> isOutput
            /\ ~ isOutput => Falsy(made.returned)

\* the content of an Output of a kind, built from the helper's argument
Shaped(kind, argument) ==
    CASE kind = "multi_line" -> Obj(<<Prop("lines", argument)>>)
      [] kind = "custom" -> Obj(<<Prop("content", argument)>>)
      [] OTHER -> argument

\* C27: a helper returns an Output of its own kind whose content is the
\* argument in the shape of that kind, unvalidated and unchanged, and whose
\* config holds every field of the config given by the caller with its value
C27_HelperShapesOutput ==
    Made =>
        LET argument == made.args[1]
            config == made.args[2]
            output == made.returned.props
        IN  /\ MapGet(output, "type") = Str(KindOf[made.fn])
            /\ MapGet(output, "content") = Shaped(KindOf[made.fn], argument)
            /\ config # Undefined =>
                   \A i \in 1..Len(config.props) :
                       /\ MapHas(MapGet(output, "config").props, config.props[i].key)
                       /\ MapGet(MapGet(output, "config").props, config.props[i].key)
                              = config.props[i].val

\* C27 witness: printSuccess was given a config with a style of its own, which
\* the Output carries instead of the helper's default
C27_Witness ==
    /\ made.fn = "printSuccess"
    /\ made.args[2] # Undefined
    /\ MapHas(made.args[2].props, "styleType")
    /\ MapGet(MapGet(made.returned.props, "config").props, "styleType") = Str("textSuccess")
    /\ MapGet(made.returned.props, "type") = Str("success")

\* the helper called now was called before with the same arguments
MadeAgain ==
    /\ Made
    /\ earlier # NotCalled
    /\ earlier.fn = made.fn
    /\ earlier.args = made.args

-----------------------------------------------------------------------------
(* Properties of the calculator *)

Returned(fn) == made.fn = fn /\ made.returned.t = "object"

Operands == MapGet(made.args, "_").items

\* a word that is a finite decimal numeral
Numeric(word) == IsDecimal(Unsign(word)) /\ Unsign(word) # "Infinity"

AllNumeric == \A i \in 1..Len(Operands) : Numeric(Operands[i])

Succeeded == MapGet(made.returned.props, "success") = True

Failed == MapGet(made.returned.props, "success") = False

\* the text of the Output that the Result carries
ResultText ==
    MapGet(MapGet(made.returned.props, IF Succeeded THEN "output" ELSE "error").props,
           "content").s

\* the number printed after "Result: "
Printed == parseFloat(SliceFrom(ResultText, Len("Result: ")))

\* the exact sum of numerals
RECURSIVE Total(_)
Total(words) ==
    IF words = <<>> THEN Finite(0, 1)
    ELSE LET x == parseFloat(Head(words))
             rest == Total(Tail(words))
         IN  Finite(x.p * rest.q + rest.p * x.q, x.q * rest.q)

\* a is b rounded to two decimal places
Rounds(a, b) ==
    /\ 100 % a.q = 0
    /\ 200 * Abs(a.p * b.q - b.p * a.q) <= a.q * b.q

FewerThanTwo == Returned("add") /\ Len(Operands) < 2

Zero(word) == IsZero(parseFloat(word))

ZeroDivisor == \E i \in 2..Len(Operands) : Zero(Operands[i])

\* every operand reads as a number
AllRead == \A i \in 1..Len(Operands) : ~ isNaN(parseFloat(Operands[i]))

DivisionByZeroFailure ==
    /\ Failed
    /\ ResultText = "Error: Division by zero is not allowed"
    /\ \A i \in 1..Len(made.did) : made.did[i] # "reduce"

ZeroDividend ==
    /\ Returned("div")
    /\ Len(Operands) >= 2
    /\ Zero(Operands[1])
    /\ \A i \in 2..Len(Operands) : Numeric(Operands[i]) /\ ~ Zero(Operands[i])

-----------------------------------------------------------------------------
(* Properties of the terminal: run, the histories and the input line *)

\* C31: in every state and for every string, run leaves the history and the
\* commandHistory that typing the string and submitting it leaves
C31_RunIsTypedSubmit ==
    \A s \in Lines \cup Typed \cup Ran :
        /\ run(s).history = handleSubmit(s).history
        /\ run(s).commandHistory = handleSubmit(s).commandHistory

NoAdjacentDuplicates ==
    \A i \in 1..(Len(commandHistory) - 1) : commandHistory[i] # commandHistory[i + 1]

\* the step has called addCommandToHistory with the line
Recorded ==
    /\ last'.op \in {"handleSubmit", "run"}
    /\ last'.sub > 0
    /\ ~ (last'.op = "handleSubmit" /\ last'.escaped)

\* C32: commandHistory never holds two equal adjacent entries: recording a
\* command appends it at the end unless it equals the last entry, and then
\* leaves commandHistory as it is; nothing else changes commandHistory
C32_NoAdjacentDuplicates ==
    /\ []NoAdjacentDuplicates
    /\ [][IF Recorded
          THEN commandHistory' =
                   IF commandHistory # <<>> /\ commandHistory[Len(commandHistory)] = last'.line
                   THEN commandHistory
                   ELSE Append(commandHistory, last'.line)
          ELSE commandHistory' = commandHistory]_vars

\* C32 witness: the line submitted again was the last entry, and commandHistory
\* was left as it was
C32_Witness ==
    /\ last.op = "handleSubmit"
    /\ last.sub > 0
    /\ ~ last.escaped
    /\ commandHistory # <<>>
    /\ commandHistory = last.preCommandHistory
    /\ commandHistory[Len(commandHistory)] = last.line

SessionStarts(h) == {i \in 1..Len(h) : h[i].command = SESSION_START}

\* C33: history never holds two entries whose command is session_start: a step
\* that adds a session_start entry while one is present leaves history as it is
C33_OneSessionStart ==
    /\ [](Cardinality(SessionStarts(history)) <= 1)
    /\ [][(/\ \/ last'.op = "welcome"
              \/ last'.op = "submit" /\ last'.line = SESSION_START
           /\ HasSessionStart(history)) => history' = history]_vars

\* C33 witness: the line session_start was submitted while the welcome entry was
\* present, and history is what it was
C33_Witness ==
    /\ last.op = "submit"
    /\ last.line = SESSION_START
    /\ Cardinality(SessionStarts(last.pre)) = 1
    /\ history = last.pre

\* b is a, or a with one entry appended at its end, or empty
AppendedOrEmptied(a, b) ==
    \/ b = a
    \/ b = <<>>
    \/ Len(b) = Len(a) + 1 /\ SubSeq(b, 1, Len(a)) = a

\* C38: in every state the entry at position i of history (counted from 0) has
\* the id i, so the ids are pairwise distinct; every change of history appends
\* one entry at its end or empties it
C38_IdsArePositions ==
    /\ [](\A i \in 1..Len(history) : history[i].id = i - 1)
    /\ [](\A i, j \in 1..Len(history) : history[i].id = history[j].id => i = j)
    /\ [][/\ AppendedOrEmptied(history, last'.mid)
          /\ AppendedOrEmptied(last'.mid, history')]_vars

\* C38 witness: a print after earlier entries got the next position as its id
C38_Witness ==
    /\ last.op = "print"
    /\ Len(last.pre) >= 2
    /\ Len(history) = Len(last.pre) + 1
    /\ history[Len(history)].id = Len(last.pre)
    /\ history[Len(history)].command = PROGRAMMATIC_PRINT_COMMAND

\* the last step emptied a history that showed the welcome message
ClearedAfterWelcome ==
    /\ history = <<>>
    /\ \E i \in 1..Len(last.pre) :
           last.pre[i].command = SESSION_START /\ last.pre[i].output = WelcomeMessage

\* C39: once a history that showed the welcome message has been cleared, it
\* stays empty until the next command submission or programmatic print
C39_StaysEmptyAfterClear ==
    [][ClearedAfterWelcome =>
          \/ history' = <<>>
          \/ last'.op \in {"submit", "handleSubmit", "run", "print"}]_vars

\* Tab has just cycled, in a run of cycling presses that began with no
\* suggestion reached
Cycling ==
    /\ presses.key = "Tab"
    /\ presses.did = "cycle"
    /\ presses.from.suggestionIndex = -1

\* the words of the text, the last of them exchanged for the word
Completed(text, word) ==
    LET words == Split(TrimStart(text))
    IN  JoinSpace([words EXCEPT ![Len(words)] = word])

\* C34: after n consecutive cycling Tab presses the input line is the words
\* before the completed one, the suggestion S[(n-1) mod |S|] and one space, and
\* suggestionIndex is (n-1) mod |S|
C34_TabCyclingReplaces ==
    Cycling =>
        /\ suggestionIndex = (presses.n - 1) % Len(suggestions)
        /\ inputValue =
               Completed(presses.from.inputValue, suggestions[suggestionIndex + 1]) \o " "

\* the inline hint is shown: Tab has not cycled, and the first suggestion
\* strictly extends the last word of the text
HintShown ==
    /\ suggestionIndex = -1
    /\ suggestions # <<>>
    /\ StartsWith(suggestions[1], LastWord(inputValue))
    /\ suggestions[1] # LastWord(inputValue)

\* Tab or ArrowRight is pressed with the cursor at the end of the text
AcceptingKey ==
    /\ last'.op = "handleKeyDown"
    /\ last'.line \in {"Tab", "ArrowRight"}
    /\ presses'.atEnd

\* C35: with the inline hint shown and the cursor at the end, Tab and ArrowRight
\* append the hint to the text, so that its last word is the first suggestion,
\* and change nothing else of the input state and the histories
C35_HintAccepted ==
    [][(HintShown /\ AcceptingKey) =>
          /\ inputValue' = inputValue \o SubSeq(suggestions[1], Len(LastWord(inputValue)) + 1,
                                                Len(suggestions[1]))
          /\ LastWord(inputValue') = suggestions[1]
          /\ UNCHANGED <<suggestions, suggestionIndex, historyIndex,
                         history, commandHistory>>]_vars

\* C35 witness: Tab has accepted the hint of a flag after a command name
C35_Witness ==
    /\ presses.key = "Tab"
    /\ presses.did = "accept"
    /\ presses.atEnd
    /\ Len(Split(inputValue)) = 2
    /\ Len(inputValue) > Len(presses.from.inputValue)
    /\ LastWord(inputValue) = suggestions[1]
    /\ suggestionIndex = -1

\* the smaller of two numbers
Least(a, b) == IF a < b THEN a ELSE b

\* the command entered k commands ago, the most recent one being 1 ago
Recent(k) == commandHistory[Len(commandHistory) - k + 1]

\* the key whose press the step handles
Pressing(key) == last'.op = "handleKeyDown" /\ last'.line = key

\* C36: historyIndex stays between -1 and the length of commandHistory less 1;
\* k ArrowUp presses in a row from historyIndex -1 put the k-th most recent
\* command in the input line, stopping at the oldest; ArrowDown moves one
\* command toward the newest, and from the newest to historyIndex -1 and an
\* empty line; ArrowDown at -1 and ArrowUp without commands change nothing
C36_HistoryNavigation ==
    /\ [](-1 <= historyIndex /\ historyIndex <= Len(commandHistory) - 1)
    /\ []((/\ presses.key = "ArrowUp"
           /\ presses.from.historyIndex = -1
           /\ Len(commandHistory) >= 1) =>
              /\ historyIndex = Least(presses.n, Len(commandHistory)) - 1
              /\ inputValue = Recent(historyIndex + 1))
    /\ [][Pressing("ArrowDown") =>
              IF historyIndex >= 1
              THEN historyIndex' = historyIndex - 1 /\ inputValue' = Recent(historyIndex)
              ELSE IF historyIndex = 0
              THEN historyIndex' = -1 /\ inputValue' = ""
              ELSE UNCHANGED inputVars]_vars
    /\ [][(Pressing("ArrowUp") /\ commandHistory = <<>>) => UNCHANGED inputVars]_vars

\* C36 witness: a third ArrowUp with two commands entered stays at the oldest
C36_Witness ==
    /\ presses.key = "ArrowUp"
    /\ presses.from.historyIndex = -1
    /\ presses.n = 3
    /\ Len(commandHistory) = 2
    /\ historyIndex = 1
    /\ inputValue = commandHistory[1]

\* C37: submitting the input line leaves the input state reset, whether the
\* line is blank or not; a line that is not blank is dispatched once, trimmed,
\* and then recorded in commandHistory
C37_SubmitResets ==
    [][last'.op = "handleSubmit" =>
          /\ inputValue' = "" /\ historyIndex' = -1
          /\ suggestions' = <<>> /\ suggestionIndex' = -1
          /\ IF Trim(inputValue) = ""
             THEN UNCHANGED <<nsub, history, commandHistory>>
             ELSE /\ nsub' = nsub + 1
                  /\ last'.line = Trim(inputValue)
                  /\ commandHistory' = addCommandToHistory(commandHistory, Trim(inputValue))]_vars

-----------------------------------------------------------------------------
(* Properties of TerminalProvider *)

\* the registry handed to the children, which the dispatcher of the store
\* reads, resolves the name and the aliases of the command to the command
Resolvable(command) ==
    /\ get(commands, command.name) = command
    /\ \A i \in 1..Len(command.aliases) : get(commands, command.aliases[i]) = command

\* the provider has registered the commands of its prop, and every render since
\* the first had the same commands prop
Settled ==
    /\ Mounted
    /\ ~ provider.pending
    /\ ~ provider.changed

\* C40: once the provider has registered the commands of its commands prop,
\* each of them, and each command registered through registerCommand, is
\* resolvable in the registry handed to the children, through every re-render
\* with the same props
C40_CommandsStayResolvable ==
    Settled =>
        /\ \A i \in 1..Len(provider.commands.commands) :
               Resolvable(provider.commands.commands[i])
        /\ \A command \in provider.dynamic : Resolvable(command)

====
